---- MODULE Spec2Model ----
(***************************************************************************)
(* Finance-Note: the text-based record store of the plugin.                *)
(*                                                                         *)
(* A document is modelled as the sequence of its lines (text.split('\n')), *)
(* a line as the sequence of the tokens written on it, so that appending a *)
(* block to a text that does not end in a newline glues the block's header *)
(* to the text's last line exactly as string concatenation does.           *)
(* Dates are the integers yyyymmdd (their order is the chronological one,  *)
(* the host time zone is UTC); amounts are integers.                       *)
(***************************************************************************)
EXTENDS Integers, Sequences, FiniteSets, TLC

VARIABLES
    files,          \* vault documents: <<kind, year>> -> text (sequence of lines)
    folders,        \* vault folders: the years whose folder exists
    transactions,   \* TransactionService.transactions (the in-memory cache)
    initialized,    \* TransactionService.initialized
    budgets,        \* BudgetService.budgets
    budgetInitialized, \* BudgetService.initialized
    issued,         \* the ids the add calls have returned, in order
    svc,            \* the repository this behaviour exercises
    updates,        \* number of update calls so far
    initCalled,     \* whether an initialize() call has completed
    last,           \* the call that completed last: its name, arguments, outcome
    result,         \* what that call returned
    calls,          \* the calls in flight: where each one stands and what it holds
    recurringTransactions,  \* RecurringTransactionService.recurringTransactions
    recurringLoading,       \* whether the load the constructor started is still to complete
    listeners,      \* EventBus.listeners: the callbacks registered for each event
    views           \* the views created so far, and whether each is open

vars == <<files, folders, transactions, initialized, budgets, budgetInitialized,
          issued, svc, updates, initCalled, last, result, calls,
          recurringTransactions, recurringLoading, listeners, views>>

----------------------------------------------------------------------------
(* Bounds of the model *)

\* ids handed out by crypto.randomUUID() in one behaviour (add calls)
MaxAdds == 3
\* update calls in one behaviour (every update may lengthen the document)
MaxUpdates == 1

\* new Date().getFullYear()
CurrentYear == 2026
\* getTime() of an Invalid Date (NaN): compares false with everything
InvalidDate == -1
\* parseFloat of a text that is no number
NaN == -2

IdPool == <<"id-a", "id-b", "id-c", "id-d", "id-e">>

Years == {2024, CurrentYear}

SeqToSet(s) == { s[i] : i \in 1..Len(s) }

----------------------------------------------------------------------------
(* Text *)

Tok(t, k, v) == [t |-> t, k |-> k, v |-> v]

BlankLine == << >>
TitleLine(plural, year) ==
    << Tok("title", plural, IF year = NaN THEN "NaN" ELSE ToString(year)) >>
HeaderLine(kind, id) == << Tok("hdr", kind, id) >>
FieldLine(label, value) == << Tok("field", label, value) >>

\* a + b on texts: the last line of a and the first line of b become one line
Cat(a, b) == SubSeq(a, 1, Len(a) - 1) \o << a[Len(a)] \o b[1] >> \o Tail(b)

\* [...].join('\n') of the lines kept; an empty array joins to the empty text
JoinLines(ls) == IF ls = << >> THEN << BlankLine >> ELSE ls

\* line.startsWith('## ')
StartsWithHeader(line) == line # << >> /\ line[1].t = "hdr"
\* line.startsWith('## <Kind> ')
StartsWithKind(line, kind) == StartsWithHeader(line) /\ line[1].k = kind
\* line.startsWith('- ')
StartsWithField(line) == line # << >> /\ line[1].t = "field"
\* line.includes(id): ids are uuids, so a token holds one only as its whole value
Includes(line, id) == \E i \in 1..Len(line) : line[i].v = id

\* s.split(': ') of a value; the sampled values hold at most one ': '
SplitColon(s) ==
    CASE s = "a: b" -> <<"a", "b">>
      [] s = "see: http://x" -> <<"see", "http://x">>
      [] OTHER -> <<s>>

\* s.split(' - ') of a value; the sampled values hold ' - ' four or seven times
\* or not at all
SplitDash(s) ==
    CASE s = "p - q - r - s - t" -> <<"p", "q", "r", "s", "t">>
      [] s = "p - q - r - s - t - u - v - w" -> <<"p", "q", "r", "s", "t", "u", "v", "w">>
      [] OTHER -> <<s>>

\* s.trim()
Trim(s) == IF s = " tip " THEN "tip" ELSE s

\* the text of the tokens up to, not including, the first ': ' in them
RECURSIVE TextUpToColon(_)
TextUpToColon(toks) ==
    IF toks = << >> THEN ""
    ELSE LET tok == Head(toks) IN
         CASE tok.t = "field" -> "- " \o tok.k
           [] tok.t = "hdr" -> "## " \o tok.k \o " " \o tok.v \o TextUpToColon(Tail(toks))
           [] OTHER -> "# " \o tok.v \o " " \o tok.k \o TextUpToColon(Tail(toks))

\* const [key, value] = line.slice(2).split(': ').map(s => s.trim())
FieldKey(line) == Trim(line[1].k)
FieldValue(line) ==
    LET segs == SplitColon(line[1].v)
    IN  IF Len(segs) > 1 THEN Trim(segs[1])
        ELSE Trim(line[1].v \o TextUpToColon(Tail(line)))

----------------------------------------------------------------------------
(* Values *)

\* the dates and amounts that occur in the model
KnownDates == {20240320, 20260305, 20260320, 20260401}
KnownAmounts == {30, 1000, 2000, 5000}

\* format(date, 'yyyy-MM-dd')
FormatDate(d) == ToString(d)
\* `${amount}`
FormatNumber(n) == IF n = NaN THEN "NaN" ELSE ToString(n)
\* `${value}` of a string field that may be undefined
FormatText(r, f) == IF f \in DOMAIN r THEN r[f] ELSE "undefined"

\* new Date(value)
NewDate(s) ==
    IF \E d \in KnownDates : FormatDate(d) = s
    THEN CHOOSE d \in KnownDates : FormatDate(d) = s
    ELSE InvalidDate
\* parseFloat(value)
ParseFloat(s) ==
    IF \E n \in KnownAmounts : ToString(n) = s
    THEN CHOOSE n \in KnownAmounts : ToString(n) = s
    ELSE NaN
\* getYear(date)
getYear(d) == IF d = InvalidDate THEN NaN ELSE d \div 10000

\* a faulty generator that hands out the same id every time
constantUUID(given) == IdPool[1]

\* crypto.randomUUID(): an id no earlier call has returned
randomUUID(given) == IdPool[Len(given) + 1]

\* the value JavaScript reads from a key the object does not have
Undefined == "<undefined>"
Get(r, f) == IF f \in DOMAIN r THEN r[f] ELSE Undefined

\* EVENT_TYPES: the topics of the change signals
TRANSACTION_CHANGED == "transaction-changed"
BUDGET_CHANGED == "budget-changed"
RECURRING_TRANSACTION_CHANGED == "recurring-transaction-changed"

\* {} and obj[key] = value
EmptyRecord == << >>
SetKey(r, k, v) == [ f \in (DOMAIN r) \cup {k} |-> IF f = k THEN v ELSE r[f] ]

----------------------------------------------------------------------------
(* Record codec: transactions *)

\* the switch of parseTransactionsFromContent
TransactionField(cur, key, value) ==
    CASE key = "Date" -> SetKey(cur, "date", NewDate(value))
      [] key = "Amount" -> SetKey(cur, "amount", ParseFloat(value))
      [] key = "Type" -> SetKey(cur, "type", value)
      [] key = "Category" -> SetKey(cur, "category", value)
      [] key = "Account" -> SetKey(cur, "account", value)
      [] key = "Description" -> SetKey(cur, "description", value)
      [] key = "Currency" -> SetKey(cur, "currency", value)
      [] key = "ID" -> SetKey(cur, "id", value)
      [] OTHER -> cur

\* if (Object.keys(current).length > 0) out.push(current)
Flush(out, cur) == IF DOMAIN cur # {} THEN Append(out, cur) ELSE out

RECURSIVE parseTransactionLines(_, _, _)
parseTransactionLines(lines, cur, out) ==
    IF lines = << >> THEN Flush(out, cur)
    ELSE LET line == Head(lines) IN
         IF StartsWithHeader(line)
         THEN parseTransactionLines(Tail(lines), EmptyRecord, Flush(out, cur))
         ELSE IF StartsWithField(line)
         THEN parseTransactionLines(Tail(lines),
                  TransactionField(cur, FieldKey(line), FieldValue(line)), out)
         ELSE parseTransactionLines(Tail(lines), cur, out)

parseTransactionsFromContent(content) ==
    parseTransactionLines(content, EmptyRecord, << >>)

formatTransaction(t) ==
    << HeaderLine("Transaction", t.id),
       BlankLine,
       FieldLine("Date", FormatDate(t.date)),
       FieldLine("Amount", FormatNumber(t.amount)),
       FieldLine("Type", t.type),
       FieldLine("Category", t.category),
       FieldLine("Account", t.account),
       FieldLine("Description", FormatText(t, "description")),
       FieldLine("Currency", t.currency),
       FieldLine("ID", t.id),
       BlankLine,
       BlankLine >>

----------------------------------------------------------------------------
(* Splicing a block in a document *)

\* lines.findIndex(line => line.startsWith('## <Kind> ') && line.includes(id)),
\* 1-based, 0 when there is none
FindBlock(lines, kind, id) ==
    LET hits == { i \in 1..Len(lines) :
                    StartsWithKind(lines[i], kind) /\ Includes(lines[i], id) }
    IN  IF hits = {} THEN 0 ELSE CHOOSE i \in hits : \A j \in hits : i <= j

\* a faulty end index: the block is taken to run to the end of the document
NextBlockToEnd(lines, kind, at) == Len(lines) + 1

\* lines.findIndex((line, index) => index > at && line.startsWith('## <Kind> ')),
\* with endIndex = lines.length when there is none (1-based: Len + 1)
NextBlock(lines, kind, at) ==
    LET hits == { i \in (at + 1)..Len(lines) : StartsWithKind(lines[i], kind) }
    IN  IF hits = {} THEN Len(lines) + 1 ELSE CHOOSE i \in hits : \A j \in hits : i <= j

\* [...lines.slice(0, at), block, ...lines.slice(endIndex)].join('\n')
ReplaceBlock(lines, kind, id, block) ==
    LET at == FindBlock(lines, kind, id)
    IN  IF at = 0 THEN lines
        ELSE JoinLines(SubSeq(lines, 1, at - 1) \o block
                       \o SubSeq(lines, NextBlock(lines, kind, at), Len(lines)))

\* [...lines.slice(0, at), ...lines.slice(endIndex)].join('\n')
RemoveBlock(lines, kind, id) ==
    LET at == FindBlock(lines, kind, id)
    IN  IF at = 0 THEN lines
        ELSE JoinLines(SubSeq(lines, 1, at - 1)
                       \o SubSeq(lines, NextBlock(lines, kind, at), Len(lines)))

----------------------------------------------------------------------------
(* The vault *)

\* vault.getAbstractFileByPath(filePath) instanceof TFile
Exists(fs, kind, year) == <<kind, year>> \in DOMAIN fs

\* vault.create(filePath, content)
Create(fs, kind, year, content) == (<<kind, year>> :> content) @@ fs

\* vault.modify(file, newContent)
Modify(fs, kind, year, content) == [fs EXCEPT ![<<kind, year>>] = content]

\* ensureDirectoryExists: createFolder, its failure on an existing folder ignored
ensureDirectoryExists(fo, year) == fo \cup {year}

----------------------------------------------------------------------------
(* EventBus *)

\* this.listeners.get(event), an event without an entry having no callbacks
Registered(ls, event) == IF event \in DOMAIN ls THEN ls[event] ELSE << >>

\* subscribe(event, callback): the entry is created when missing, the
\* callback pushed
Subscribe(ls, event, cb) == (event :> Append(Registered(ls, event), cb)) @@ ls

\* callbacks.indexOf(callback), 1-based, 0 when there is none: functions are
\* compared by identity
IndexOf(cbs, cb) ==
    LET hits == { i \in 1..Len(cbs) : cbs[i] = cb }
    IN  IF hits = {} THEN 0 ELSE CHOOSE i \in hits : \A j \in hits : i <= j

\* a faulty unsubscribe that drops every registration of the callback
UnsubscribeEvery(ls, event, cb) ==
    IF event \notin DOMAIN ls THEN ls
    ELSE [ls EXCEPT ![event] = SelectSeq(@, LAMBDA c : c # cb)]

\* unsubscribe(event, callback): callbacks.splice(index, 1) when it is found
Unsubscribe(ls, event, cb) ==
    IF event \notin DOMAIN ls \/ IndexOf(Registered(ls, event), cb) = 0 THEN ls
    ELSE LET i == IndexOf(ls[event], cb)
         IN  [ls EXCEPT ![event] = SubSeq(@, 1, i - 1) \o SubSeq(@, i + 1, Len(@))]

\* a function value: the closure number made of the view (0: a function a
\* caller of the bus holds), and what owns it
Callback(owner, view, made) == [owner |-> owner, view |-> view, made |-> made]
Handler(owner) == Callback(owner, 0, "caller")

\* what running a callback does to the registrations: 'leaver' unsubscribes
\* itself, 'kicker' unsubscribes the handler f; a view's callback renders
Call(cb, ls) ==
    CASE cb.owner = "leaver" -> Unsubscribe(ls, TRANSACTION_CHANGED, cb)
      [] cb.owner = "kicker" -> Unsubscribe(ls, TRANSACTION_CHANGED, Handler("f"))
      [] OTHER -> ls
\* whether the callback raises
Throws(cb) == cb.owner = "thrower"

\* callbacks.forEach(callback => callback()) from index k on: forEach fixes
\* the length when it starts, skips the indices the array no longer has and
\* reads each element when it reaches it; an exception ends the loop
RECURSIVE ForEach(_, _, _, _, _)
ForEach(ls, event, k, len, invoked) ==
    IF k > len THEN [listeners |-> ls, invoked |-> invoked, threw |-> FALSE]
    ELSE IF k > Len(ls[event]) THEN ForEach(ls, event, k + 1, len, invoked)
    ELSE LET cb == ls[event][k] IN
         IF Throws(cb) THEN [listeners |-> ls, invoked |-> Append(invoked, cb), threw |-> TRUE]
         ELSE ForEach(Call(cb, ls), event, k + 1, len, Append(invoked, cb))

\* emit(event): the registrations left, the callbacks invoked in order and
\* whether one of them raised
Emit(ls, event) ==
    IF event \notin DOMAIN ls THEN [listeners |-> ls, invoked |-> << >>, threw |-> FALSE]
    ELSE ForEach(ls, event, 1, Len(ls[event]), << >>)

----------------------------------------------------------------------------
(* TransactionService *)

getInitialContent(year) == << TitleLine("Transactions", year), BlankLine, BlankLine >>

\* the documents after getOrCreateFinanceFile(year)
getOrCreateFinanceFile(fs, year) ==
    IF Exists(fs, "Transaction", year) THEN fs
    ELSE Create(fs, "Transaction", year, getInitialContent(year))

\* the documents after addTransactionToContent(transaction)
addTransactionToContent(fs, t) ==
    LET year == getYear(t.date)
        fs1 == getOrCreateFinanceFile(fs, year)
        content == fs1[<<"Transaction", year>>]
    IN  Modify(fs1, "Transaction", year, Cat(content, formatTransaction(t)))

\* the documents after updateTransactionInContent(transaction)
updateTransactionInContent(fs, t) ==
    LET year == getYear(t.date)
        fs1 == getOrCreateFinanceFile(fs, year)
        lines == fs1[<<"Transaction", year>>]
    IN  Modify(fs1, "Transaction", year,
               ReplaceBlock(lines, "Transaction", t.id, formatTransaction(t)))

\* the documents after deleteTransactionFromContent(id, date)
deleteTransactionFromContent(fs, id, date) ==
    LET year == getYear(date)
        fs1 == getOrCreateFinanceFile(fs, year)
        lines == fs1[<<"Transaction", year>>]
    IN  Modify(fs1, "Transaction", year, RemoveBlock(lines, "Transaction", id))

\* this.transactions after loadTransactionsByYear(year) / loadTransactions()
LoadedTransactions(fs, year) ==
    parseTransactionsFromContent(getOrCreateFinanceFile(fs, year)[<<"Transaction", year>>])

\* a faulty lookup that falls back to the first record when no id matches
FindIndexOrFirst(cache, id) ==
    LET hits == { i \in 1..Len(cache) : "id" \in DOMAIN cache[i] /\ cache[i].id = id }
    IN  IF hits = {} THEN (IF Len(cache) > 0 THEN 1 ELSE 0)
        ELSE CHOOSE i \in hits : \A j \in hits : i <= j

\* this.transactions.findIndex(t => t.id === id), 1-based, 0 when there is none
FindIndex(cache, id) ==
    LET hits == { i \in 1..Len(cache) : "id" \in DOMAIN cache[i] /\ cache[i].id = id }
    IN  IF hits = {} THEN 0 ELSE CHOOSE i \in hits : \A j \in hits : i <= j

\* what no call changes while it runs alone
recurringVars == <<recurringTransactions, recurringLoading>>
busVars == <<listeners, views>>
env == <<svc, calls, recurringVars, busVars>>
\* the same for a call that emits a change signal
callEnv == <<svc, calls, recurringVars, views>>
budgetVars == <<budgets, budgetInitialized>>
transactionVars == <<transactions, initialized>>

\* loadTransactions(): getOrCreateFinanceFile(currentYear), read, parse
loadTransactions(fs, fo) ==
    /\ files' = getOrCreateFinanceFile(fs, CurrentYear)
    /\ folders' = ensureDirectoryExists(fo, CurrentYear)
    /\ transactions' = LoadedTransactions(fs, CurrentYear)

\* a faulty initialize() without the `initialized` guard: it loads on every call
initializeUnguarded ==
    /\ svc = "transaction"
    /\ loadTransactions(files, folders) /\ initialized' = TRUE
    /\ last' = [op |-> "initialize", ok |-> TRUE, loaded |-> TRUE]
    /\ result' = << >>
    /\ initCalled' = TRUE
    /\ UNCHANGED <<budgetVars, issued, env, updates>>

initialize ==
    /\ svc = "transaction"
    /\ IF ~initialized
       THEN loadTransactions(files, folders) /\ initialized' = TRUE
       ELSE UNCHANGED <<files, folders, transactions, initialized>>
    /\ last' = [op |-> "initialize", ok |-> TRUE, loaded |-> ~initialized]
    /\ result' = << >>
    /\ initCalled' = TRUE
    /\ UNCHANGED <<budgetVars, issued, env, updates>>

\* format(date, 'yyyy-MM-dd') throws on an invalid date: the call then ends
\* after getOrCreateFinanceFile, before the write, the reload and the signal
addTransaction(t) ==
    /\ svc = "transaction"
    /\ Len(issued) < MaxAdds
    /\ LET newTransaction == SetKey(t, "id", randomUUID(issued))
       IN  IF t.date = InvalidDate
           THEN /\ files' = getOrCreateFinanceFile(files, getYear(t.date))
                /\ folders' = ensureDirectoryExists(folders, getYear(t.date))
                /\ UNCHANGED <<transactions, listeners>>
                /\ last' = [op |-> "add", ok |-> FALSE, arg |-> t, signals |-> << >>]
                /\ result' = << >>
           ELSE
           /\ loadTransactions(addTransactionToContent(files, newTransaction),
                               ensureDirectoryExists(folders, getYear(t.date)))
           /\ listeners' = Emit(listeners, TRANSACTION_CHANGED).listeners
           /\ last' = [op |-> "add", ok |-> ~Emit(listeners, TRANSACTION_CHANGED).threw,
                       arg |-> t, id |-> newTransaction.id,
                       signals |-> << TRANSACTION_CHANGED >>,
                       invoked |-> Emit(listeners, TRANSACTION_CHANGED).invoked]
           /\ result' = IF Emit(listeners, TRANSACTION_CHANGED).threw THEN << >>
                        ELSE << newTransaction >>
    /\ issued' = Append(issued, randomUUID(issued))
    /\ UNCHANGED <<updates, initCalled>>
    /\ UNCHANGED <<budgetVars, initialized, callEnv>>

updateTransaction(t) ==
    /\ svc = "transaction"
    /\ updates < MaxUpdates
    /\ IF FindIndex(transactions, t.id) = 0
       THEN /\ UNCHANGED <<files, folders, transactions, listeners>>
            /\ last' = [op |-> "update", ok |-> FALSE, id |-> t.id, signals |-> << >>]
            /\ result' = << >>
       ELSE /\ loadTransactions(updateTransactionInContent(files, t),
                                ensureDirectoryExists(folders, getYear(t.date)))
            /\ listeners' = Emit(listeners, TRANSACTION_CHANGED).listeners
            /\ last' = [op |-> "update", ok |-> ~Emit(listeners, TRANSACTION_CHANGED).threw,
                        arg |-> t, id |-> t.id,
                        signals |-> << TRANSACTION_CHANGED >>,
                        invoked |-> Emit(listeners, TRANSACTION_CHANGED).invoked]
            /\ result' = IF Emit(listeners, TRANSACTION_CHANGED).threw THEN << >>
                         ELSE << t >>
    /\ updates' = IF FindIndex(transactions, t.id) = 0 THEN updates ELSE updates + 1
    /\ UNCHANGED <<budgetVars, initialized, issued, callEnv, initCalled>>

deleteTransaction(id) ==
    /\ svc = "transaction"
    /\ IF FindIndex(transactions, id) = 0
       THEN /\ UNCHANGED <<files, folders, transactions, listeners>>
            /\ last' = [op |-> "delete", ok |-> FALSE, id |-> id, signals |-> << >>]
       ELSE LET transaction == transactions[FindIndex(transactions, id)]
            IN  /\ loadTransactions(
                       deleteTransactionFromContent(files, id, transaction.date),
                       ensureDirectoryExists(folders, getYear(transaction.date)))
                /\ listeners' = Emit(listeners, TRANSACTION_CHANGED).listeners
                /\ last' = [op |-> "delete",
                            ok |-> ~Emit(listeners, TRANSACTION_CHANGED).threw, id |-> id,
                            year |-> getYear(transaction.date),
                            signals |-> << TRANSACTION_CHANGED >>,
                            invoked |-> Emit(listeners, TRANSACTION_CHANGED).invoked]
    /\ result' = << >>
    /\ UNCHANGED <<updates, initCalled>>
    /\ UNCHANGED <<budgetVars, initialized, issued, callEnv>>

loadTransactionsByYear(year) ==
    /\ svc = "transaction"
    /\ files' = getOrCreateFinanceFile(files, year)
    /\ folders' = ensureDirectoryExists(folders, year)
    /\ transactions' = LoadedTransactions(files, year)
    /\ last' = [op |-> "loadByYear", ok |-> TRUE, year |-> year]
    /\ result' = << >>
    /\ UNCHANGED <<updates, initCalled>>
    /\ UNCHANGED <<budgetVars, initialized, issued, env>>

----------------------------------------------------------------------------
(* Record codec: budgets *)

\* the switch of parseBudgetsFromContent
BudgetField(cur, key, value) ==
    CASE key = "Amount" -> SetKey(cur, "amount", ParseFloat(value))
      [] key = "Category" -> SetKey(cur, "category", value)
      [] key = "Period" -> SetKey(cur, "period", value)
      [] key = "Description" -> SetKey(cur, "description", value)
      [] key = "Currency" -> SetKey(cur, "currency", value)
      [] key = "ID" -> SetKey(cur, "id", value)
      [] OTHER -> cur

RECURSIVE parseBudgetLines(_, _, _)
parseBudgetLines(lines, cur, out) ==
    IF lines = << >> THEN Flush(out, cur)
    ELSE LET line == Head(lines) IN
         IF StartsWithHeader(line)
         THEN parseBudgetLines(Tail(lines), EmptyRecord, Flush(out, cur))
         ELSE IF StartsWithField(line)
         THEN parseBudgetLines(Tail(lines),
                  BudgetField(cur, FieldKey(line), FieldValue(line)), out)
         ELSE parseBudgetLines(Tail(lines), cur, out)

parseBudgetsFromContent(content) == parseBudgetLines(content, EmptyRecord, << >>)

\* `${budget.description || ''}`
FormatOrEmpty(r, f) == IF f \in DOMAIN r THEN r[f] ELSE ""

formatBudget(b) ==
    << HeaderLine("Budget", b.id),
       BlankLine,
       FieldLine("Amount", FormatNumber(b.amount)),
       FieldLine("Category", b.category),
       FieldLine("Period", b.period),
       FieldLine("Description", FormatOrEmpty(b, "description")),
       FieldLine("Currency", b.currency),
       FieldLine("ID", b.id),
       BlankLine,
       BlankLine >>

----------------------------------------------------------------------------
(* BudgetService *)

Budget_getInitialContent(year) == << TitleLine("Budgets", year), BlankLine, BlankLine >>

\* the documents after BudgetService.getOrCreateFinanceFile(year)
Budget_getOrCreateFinanceFile(fs, year) ==
    IF Exists(fs, "Budget", year) THEN fs
    ELSE Create(fs, "Budget", year, Budget_getInitialContent(year))

addBudgetToContent(fs, b) ==
    LET fs1 == Budget_getOrCreateFinanceFile(fs, CurrentYear)
        content == fs1[<<"Budget", CurrentYear>>]
    IN  Modify(fs1, "Budget", CurrentYear, Cat(content, formatBudget(b)))

updateBudgetInContent(fs, b) ==
    LET fs1 == Budget_getOrCreateFinanceFile(fs, CurrentYear)
        lines == fs1[<<"Budget", CurrentYear>>]
    IN  Modify(fs1, "Budget", CurrentYear, ReplaceBlock(lines, "Budget", b.id, formatBudget(b)))

deleteBudgetFromContent(fs, id) ==
    LET fs1 == Budget_getOrCreateFinanceFile(fs, CurrentYear)
        lines == fs1[<<"Budget", CurrentYear>>]
    IN  Modify(fs1, "Budget", CurrentYear, RemoveBlock(lines, "Budget", id))

\* this.budgets after loadBudgets()
LoadedBudgets(fs) ==
    parseBudgetsFromContent(
        Budget_getOrCreateFinanceFile(fs, CurrentYear)[<<"Budget", CurrentYear>>])

\* BudgetService.initialize(): the folder and the document are ensured on every
\* call, the load runs while the service is not initialized
Budget_initialize ==
    /\ svc = "budget"
    /\ folders' = ensureDirectoryExists(folders, CurrentYear)
    /\ files' = Budget_getOrCreateFinanceFile(files, CurrentYear)
    /\ IF ~budgetInitialized
       THEN budgets' = LoadedBudgets(files) /\ budgetInitialized' = TRUE
       ELSE UNCHANGED <<budgets, budgetInitialized>>
    /\ last' = [op |-> "initialize", ok |-> TRUE, loaded |-> ~budgetInitialized]
    /\ result' = << >>
    /\ initCalled' = TRUE
    /\ UNCHANGED <<transactionVars, issued, env, updates>>

addBudget(b) ==
    /\ svc = "budget"
    /\ Len(issued) < MaxAdds
    /\ LET newBudget == SetKey(b, "id", randomUUID(issued))
       IN  /\ budgets' = Append(budgets, newBudget)
           /\ files' = addBudgetToContent(files, newBudget)
           /\ last' = [op |-> "add", ok |-> TRUE, arg |-> b, id |-> newBudget.id,
                       signals |-> << >>]
           /\ result' = << newBudget >>
    /\ folders' = ensureDirectoryExists(folders, CurrentYear)
    /\ issued' = Append(issued, randomUUID(issued))
    /\ UNCHANGED <<transactionVars, budgetInitialized, env, updates, initCalled>>

updateBudget(b) ==
    /\ svc = "budget"
    /\ updates < MaxUpdates
    /\ IF FindIndex(budgets, b.id) = 0
       THEN /\ UNCHANGED <<files, folders, budgets, updates>>
            /\ last' = [op |-> "update", ok |-> FALSE, id |-> b.id, signals |-> << >>]
            /\ result' = << >>
       ELSE /\ budgets' = [budgets EXCEPT ![FindIndex(budgets, b.id)] = b]
            /\ files' = updateBudgetInContent(files, b)
            /\ folders' = ensureDirectoryExists(folders, CurrentYear)
            /\ updates' = updates + 1
            /\ last' = [op |-> "update", ok |-> TRUE, arg |-> b, id |-> b.id,
                        signals |-> << >>]
            /\ result' = << b >>
    /\ UNCHANGED <<transactionVars, budgetInitialized, issued, env, initCalled>>

\* this.budgets.splice(index, 1)
Splice(cache, index) == SubSeq(cache, 1, index - 1) \o SubSeq(cache, index + 1, Len(cache))

deleteBudget(id) ==
    /\ svc = "budget"
    /\ IF FindIndex(budgets, id) = 0
       THEN /\ UNCHANGED <<files, folders, budgets>>
            /\ last' = [op |-> "delete", ok |-> FALSE, id |-> id, signals |-> << >>]
       ELSE /\ budgets' = Splice(budgets, FindIndex(budgets, id))
            /\ files' = deleteBudgetFromContent(files, id)
            /\ folders' = ensureDirectoryExists(folders, CurrentYear)
            /\ last' = [op |-> "delete", ok |-> TRUE, id |-> id, year |-> CurrentYear,
                        signals |-> << >>]
    /\ result' = << >>
    /\ UNCHANGED <<transactionVars, budgetInitialized, issued, env, updates, initCalled>>

----------------------------------------------------------------------------
(* Record codec: recurring transactions *)

\* the switch of parseRecurringTransactionsFromContent; an empty End Date value
\* stores undefined under the key endDate
RecurringField(cur, key, value) ==
    CASE key = "Amount" -> SetKey(cur, "amount", ParseFloat(value))
      [] key = "Type" -> SetKey(cur, "type", value)
      [] key = "Category" -> SetKey(cur, "category", value)
      [] key = "Account" -> SetKey(cur, "account", value)
      [] key = "Description" -> SetKey(cur, "description", value)
      [] key = "Frequency" -> SetKey(cur, "frequency", value)
      [] key = "Start Date" -> SetKey(cur, "startDate", NewDate(value))
      [] key = "End Date" ->
             SetKey(cur, "endDate", IF value # "" THEN NewDate(value) ELSE Undefined)
      [] key = "Currency" -> SetKey(cur, "currency", value)
      [] key = "ID" -> SetKey(cur, "id", value)
      [] OTHER -> cur

RECURSIVE parseRecurringLines(_, _, _)
parseRecurringLines(lines, cur, out) ==
    IF lines = << >> THEN Flush(out, cur)
    ELSE LET line == Head(lines) IN
         IF StartsWithHeader(line)
         THEN parseRecurringLines(Tail(lines), EmptyRecord, Flush(out, cur))
         ELSE IF StartsWithField(line)
         THEN parseRecurringLines(Tail(lines),
                  RecurringField(cur, FieldKey(line), FieldValue(line)), out)
         ELSE parseRecurringLines(Tail(lines), cur, out)

parseRecurringTransactionsFromContent(content) ==
    parseRecurringLines(content, EmptyRecord, << >>)

\* transaction.endDate ? format(transaction.endDate, 'yyyy-MM-dd') : ''
FormatEndDate(r) == IF "endDate" \in DOMAIN r THEN FormatDate(r.endDate) ELSE ""

formatRecurringTransaction(t) ==
    << HeaderLine("Recurring Transaction", t.id),
       BlankLine,
       FieldLine("Amount", FormatNumber(t.amount)),
       FieldLine("Type", t.type),
       FieldLine("Category", t.category),
       FieldLine("Account", t.account),
       FieldLine("Description", FormatText(t, "description")),
       FieldLine("Frequency", t.frequency),
       FieldLine("Start Date", FormatDate(t.startDate)),
       FieldLine("End Date", FormatEndDate(t)),
       FieldLine("Currency", t.currency),
       FieldLine("ID", t.id),
       BlankLine,
       BlankLine >>

----------------------------------------------------------------------------
(* RecurringTransactionService *)

RecurringKind == "Recurring Transaction"

Recurring_getInitialContent(year) ==
    << TitleLine("Recurring Transactions", year), BlankLine, BlankLine >>

\* the documents after RecurringTransactionService.getOrCreateFinanceFile(year)
Recurring_getOrCreateFinanceFile(fs, year) ==
    IF Exists(fs, RecurringKind, year) THEN fs
    ELSE Create(fs, RecurringKind, year, Recurring_getInitialContent(year))

addRecurringTransactionToContent(fs, t) ==
    LET year == getYear(t.startDate)
        fs1 == Recurring_getOrCreateFinanceFile(fs, year)
    IN  Modify(fs1, RecurringKind, year,
               Cat(fs1[<<RecurringKind, year>>], formatRecurringTransaction(t)))

updateRecurringTransactionInContent(fs, t) ==
    LET year == getYear(t.startDate)
        fs1 == Recurring_getOrCreateFinanceFile(fs, year)
    IN  Modify(fs1, RecurringKind, year,
               ReplaceBlock(fs1[<<RecurringKind, year>>], RecurringKind, t.id,
                            formatRecurringTransaction(t)))

deleteRecurringTransactionFromContent(fs, id, startDate) ==
    LET year == getYear(startDate)
        fs1 == Recurring_getOrCreateFinanceFile(fs, year)
    IN  Modify(fs1, RecurringKind, year,
               RemoveBlock(fs1[<<RecurringKind, year>>], RecurringKind, id))

recurringFrame == UNCHANGED <<transactionVars, budgetVars, svc, calls, initCalled, views>>

\* the load the constructor started completes: the document of the current
\* year is ensured, read and decoded into the cache
loadRecurringTransactions ==
    /\ svc = "recurring" /\ recurringLoading
    /\ files' = Recurring_getOrCreateFinanceFile(files, CurrentYear)
    /\ folders' = ensureDirectoryExists(folders, CurrentYear)
    /\ recurringTransactions' =
           parseRecurringTransactionsFromContent(files'[<<RecurringKind, CurrentYear>>])
    /\ recurringLoading' = FALSE
    /\ last' = [op |-> "load", ok |-> TRUE]
    /\ result' = << >>
    /\ UNCHANGED <<issued, updates, listeners>>
    /\ recurringFrame

addRecurringTransaction(t) ==
    /\ svc = "recurring"
    /\ Len(issued) < MaxAdds
    /\ LET newTransaction == SetKey(t, "id", randomUUID(issued))
       IN  /\ recurringTransactions' = Append(recurringTransactions, newTransaction)
           /\ files' = addRecurringTransactionToContent(files, newTransaction)
           /\ listeners' = Emit(listeners, RECURRING_TRANSACTION_CHANGED).listeners
           /\ last' = [op |-> "add",
                       ok |-> ~Emit(listeners, RECURRING_TRANSACTION_CHANGED).threw,
                       arg |-> t, id |-> newTransaction.id,
                       signals |-> << RECURRING_TRANSACTION_CHANGED >>]
           /\ result' = << newTransaction >>
    /\ folders' = ensureDirectoryExists(folders, getYear(t.startDate))
    /\ issued' = Append(issued, randomUUID(issued))
    /\ UNCHANGED <<recurringLoading, updates>>
    /\ recurringFrame

updateRecurringTransaction(t) ==
    /\ svc = "recurring"
    /\ updates < MaxUpdates
    /\ IF FindIndex(recurringTransactions, t.id) = 0
       THEN /\ UNCHANGED <<files, folders, recurringTransactions, updates, listeners>>
            /\ last' = [op |-> "update", ok |-> FALSE, id |-> t.id, signals |-> << >>]
            /\ result' = << >>
       ELSE /\ recurringTransactions' =
                   [recurringTransactions EXCEPT ![FindIndex(recurringTransactions, t.id)] = t]
            /\ files' = updateRecurringTransactionInContent(files, t)
            /\ folders' = ensureDirectoryExists(folders, getYear(t.startDate))
            /\ updates' = updates + 1
            /\ listeners' = Emit(listeners, RECURRING_TRANSACTION_CHANGED).listeners
            /\ last' = [op |-> "update",
                        ok |-> ~Emit(listeners, RECURRING_TRANSACTION_CHANGED).threw,
                        arg |-> t, id |-> t.id,
                        signals |-> << RECURRING_TRANSACTION_CHANGED >>]
            /\ result' = << t >>
    /\ UNCHANGED <<recurringLoading, issued>>
    /\ recurringFrame

deleteRecurringTransaction(id) ==
    /\ svc = "recurring"
    /\ IF FindIndex(recurringTransactions, id) = 0
       THEN /\ UNCHANGED <<files, folders, recurringTransactions, listeners>>
            /\ last' = [op |-> "delete", ok |-> FALSE, id |-> id, signals |-> << >>]
       ELSE LET transaction == recurringTransactions[FindIndex(recurringTransactions, id)]
            IN  /\ recurringTransactions' =
                       Splice(recurringTransactions, FindIndex(recurringTransactions, id))
                /\ files' = deleteRecurringTransactionFromContent(files, id,
                                                                  transaction.startDate)
                /\ folders' = ensureDirectoryExists(folders, getYear(transaction.startDate))
                /\ listeners' = Emit(listeners, RECURRING_TRANSACTION_CHANGED).listeners
                /\ last' = [op |-> "delete",
                            ok |-> ~Emit(listeners, RECURRING_TRANSACTION_CHANGED).threw,
                            id |-> id, year |-> getYear(transaction.startDate),
                            signals |-> << RECURRING_TRANSACTION_CHANGED >>]
    /\ result' = << >>
    /\ UNCHANGED <<recurringLoading, issued, updates>>
    /\ recurringFrame

----------------------------------------------------------------------------
(* Listing queries: getBudgets and getRecurringTransactions read the       *)
(* document line by line                                                   *)

\* the text of a '- ' line after the '- ', cut at every ' - '
DashParts(line) ==
    LET segs == SplitDash(line[1].v)
        n == Len(segs)
        head == IF n = 1 THEN << line[1].k \o ": " \o segs[1] \o TextUpToColon(Tail(line)) >>
                ELSE << line[1].k \o ": " \o segs[1] >>
        rest == IF n = 1 THEN << >>
                ELSE SubSeq(segs, 2, n - 1) \o << segs[n] \o TextUpToColon(Tail(line)) >>
    IN  head \o rest

\* parts i.. joined by ' - ' again: what the last group of the pattern takes
RECURSIVE JoinDash(_, _)
JoinDash(parts, i) ==
    IF i = Len(parts) THEN parts[i] ELSE parts[i] \o " - " \o JoinDash(parts, i + 1)

\* `x.trim() || undefined` assigned to a key
SetOptional(r, key, value) == IF value = "" THEN r ELSE SetKey(r, key, value)

\* parseBudgetLine: the record of a line of five ' - ' separated parts under a
\* new id, or nothing
parseBudgetLine(line, id) ==
    LET parts == DashParts(line) IN
    IF Len(parts) < 5 THEN << >>
    ELSE << SetOptional([id |-> id,
                         amount |-> ParseFloat(parts[1]),
                         category |-> Trim(parts[2]),
                         period |-> Trim(parts[3]),
                         currency |-> Trim(parts[4])],
                        "description", Trim(JoinDash(parts, 5))) >>

\* parseRecurringTransactionLine: eight parts
parseRecurringTransactionLine(line, id) ==
    LET parts == DashParts(line) IN
    IF Len(parts) < 8 THEN << >>
    ELSE LET r == SetOptional([id |-> id,
                               amount |-> ParseFloat(parts[1]),
                               type |-> Trim(parts[2]),
                               category |-> Trim(parts[3]),
                               account |-> Trim(parts[4]),
                               frequency |-> Trim(parts[5]),
                               startDate |-> NewDate(Trim(parts[6])),
                               currency |-> "CNY"],
                              "description", Trim(JoinDash(parts, 8)))
         IN  << IF Trim(parts[7]) = "" THEN r
                ELSE SetKey(r, "endDate", NewDate(Trim(parts[7]))) >>

\* the loop of getBudgets / getRecurringTransactions over the lines; given
\* are the ids handed out so far
RECURSIVE ListLines(_, _, _, _)
ListLines(lines, kind, given, out) ==
    IF lines = << >> THEN out
    ELSE LET line == Head(lines)
             parsed == IF ~StartsWithField(line) THEN << >>
                       ELSE IF kind = "Budget" THEN parseBudgetLine(line, randomUUID(given))
                       ELSE parseRecurringTransactionLine(line, randomUUID(given))
         IN  ListLines(Tail(lines), kind,
                       IF parsed = << >> THEN given ELSE Append(given, parsed[1].id),
                       out \o parsed)

\* the '- ' lines of a text that the pattern of the kind accepts
Listed(lines, kind) ==
    { i \in 1..Len(lines) :
        /\ StartsWithField(lines[i])
        /\ Len(DashParts(lines[i])) >= (IF kind = "Budget" THEN 5 ELSE 8) }

getBudgets(year) ==
    /\ svc = "budget"
    /\ LET fs0 == IF budgetInitialized THEN files
                  ELSE Budget_getOrCreateFinanceFile(files, CurrentYear)
           fs1 == Budget_getOrCreateFinanceFile(fs0, year)
           lines == fs1[<<"Budget", year>>]
       IN  /\ Len(issued) + Cardinality(Listed(lines, "Budget")) <= Len(IdPool)
           /\ files' = fs1
           /\ folders' = ensureDirectoryExists(
                             IF budgetInitialized THEN folders
                             ELSE ensureDirectoryExists(folders, CurrentYear), year)
           /\ budgets' = IF budgetInitialized THEN budgets ELSE LoadedBudgets(files)
           /\ result' = ListLines(lines, "Budget", issued, << >>)
           /\ issued' = issued \o [i \in 1..Len(result') |-> result'[i].id]
    /\ budgetInitialized' = TRUE
    /\ last' = [op |-> "list", ok |-> TRUE, year |-> year]
    /\ UNCHANGED <<transactionVars, env, updates, initCalled>>

getRecurringTransactions(year) ==
    /\ svc = "recurring"
    /\ LET fs1 == Recurring_getOrCreateFinanceFile(files, year)
           lines == fs1[<<RecurringKind, year>>]
       IN  /\ Len(issued) + Cardinality(Listed(lines, RecurringKind)) <= Len(IdPool)
           /\ files' = fs1
           /\ folders' = ensureDirectoryExists(folders, year)
           /\ result' = ListLines(lines, RecurringKind, issued, << >>)
           /\ issued' = issued \o [i \in 1..Len(result') |-> result'[i].id]
    /\ last' = [op |-> "list", ok |-> TRUE, year |-> year]
    /\ UNCHANGED <<recurringVars, updates, listeners>>
    /\ recurringFrame

----------------------------------------------------------------------------
(* Query/filter engine: getTransactions *)


\* new Date(t.date).getTime(); NaN for a missing or unparseable date
DateOf(t) == IF "date" \in DOMAIN t THEN t.date ELSE InvalidDate
\* t.amount as an operand of +: undefined + n is NaN
AmountOf(t) == IF "amount" \in DOMAIN t THEN t.amount ELSE NaN

\* a faulty upper bound that leaves out the end date itself
DateLess(a, b) == a # InvalidDate /\ b # InvalidDate /\ a < b

\* a >= b and a <= b on getTime() values: false when either is NaN
DateGeq(a, b) == a # InvalidDate /\ b # InvalidDate /\ a >= b
DateLeq(a, b) == a # InvalidDate /\ b # InvalidDate /\ a <= b

\* the filter steps of getTransactions
FilterTransactions(cache, q) ==
    LET InStart(t) == DateGeq(DateOf(t), q.startDate)
        InEnd(t) == DateLeq(DateOf(t), q.endDate)
        InCategories(t) == Get(t, "category") \in q.categories
        InAccounts(t) == Get(t, "account") \in q.accounts
        InTypes(t) == Get(t, "type") \in q.types
        f1 == IF "startDate" \in DOMAIN q THEN SelectSeq(cache, InStart) ELSE cache
        f2 == IF "endDate" \in DOMAIN q THEN SelectSeq(f1, InEnd) ELSE f1
        f3 == IF "categories" \in DOMAIN q THEN SelectSeq(f2, InCategories) ELSE f2
        f4 == IF "accounts" \in DOMAIN q THEN SelectSeq(f3, InAccounts) ELSE f3
        f5 == IF "types" \in DOMAIN q THEN SelectSeq(f4, InTypes) ELSE f4
    IN  f5

\* the UTF-16 code units of the strings the records hold
CodeUnits ==
       "" :> << >>
    @@ "food" :> <<102, 111, 111, 100>>
    @@ "salary" :> <<115, 97, 108, 97, 114, 121>>
    @@ "cash" :> <<99, 97, 115, 104>>
    @@ "bank" :> <<98, 97, 110, 107>>
    @@ "expense" :> <<101, 120, 112, 101, 110, 115, 101>>
    @@ "income" :> <<105, 110, 99, 111, 109, 101>>
    @@ "CNY" :> <<67, 78, 89>>
    @@ "USD" :> <<85, 83, 68>>
    @@ "lunch" :> <<108, 117, 110, 99, 104>>
    @@ "a" :> <<97>>
    @@ "a: b" :> <<97, 58, 32, 98>>
    @@ "id-a" :> <<105, 100, 45, 97>>
    @@ "id-b" :> <<105, 100, 45, 98>>
    @@ "id-c" :> <<105, 100, 45, 99>>
    @@ "id-d" :> <<105, 100, 45, 100>>
    @@ "id-e" :> <<105, 100, 45, 101>>
    @@ "undefined" :> <<117, 110, 100, 101, 102, 105, 110, 101, 100>>

\* String(n) for the amounts: the decimal digits, "NaN" for NaN
RECURSIVE Digits(_)
Digits(n) == IF n < 10 THEN << 48 + n >> ELSE Append(Digits(n \div 10), 48 + (n % 10))
NumberString(n) == IF n = NaN THEN <<78, 97, 78>> ELSE Digits(n)

\* getDay() of a date: 0 is Sunday
DayOfWeek(d) ==
    LET month == (d \div 100) % 100
        day == d % 100
        y == IF month < 3 THEN getYear(d) - 1 ELSE getYear(d)
        shift == <<0, 3, 2, 5, 0, 3, 5, 1, 4, 6, 2, 4>>
    IN  (y + (y \div 4) - (y \div 100) + (y \div 400) + shift[month] + day) % 7

DayNames == <<<<83, 117, 110>>, <<77, 111, 110>>, <<84, 117, 101>>, <<87, 101, 100>>, <<84, 104, 117>>, <<70, 114, 105>>, <<83, 97, 116>>>>
MonthNames == <<<<74, 97, 110>>, <<70, 101, 98>>, <<77, 97, 114>>, <<65, 112, 114>>, <<77, 97, 121>>, <<74, 117, 110>>, <<74, 117, 108>>, <<65, 117, 103>>, <<83, 101, 112>>, <<79, 99, 116>>, <<78, 111, 118>>, <<68, 101, 99>>>>
TwoDigits(n) == << 48 + (n \div 10), 48 + (n % 10) >>

\* String(date) = date.toString(): "Fri Mar 20 2026 00:00:00 GMT+0000 (...)".
\* Every cached date is a midnight, so the text after the year is the same
\* for all of them and is left out; "Invalid Date" for an invalid date
DateString(d) ==
    IF d = InvalidDate THEN <<73, 110, 118, 97, 108, 105, 100, 32, 68, 97, 116, 101>>
    ELSE DayNames[DayOfWeek(d) + 1] \o <<32>> \o MonthNames[(d \div 100) % 100] \o <<32>>
         \o TwoDigits(d % 100) \o <<32>> \o Digits(getYear(d))

\* String(a[field] ?? '')
StringOf(t, field) ==
    CASE field \notin DOMAIN t -> << >>
      [] field = "date" -> DateString(t.date)
      [] field = "amount" -> NumberString(t.amount)
      [] OTHER -> CodeUnits[t[field]]

\* a < b on strings: by code units, a proper prefix first
RECURSIVE StringLess(_, _)
StringLess(a, b) ==
    CASE b = << >> -> FALSE
      [] a = << >> -> TRUE
      [] Head(a) # Head(b) -> Head(a) < Head(b)
      [] OTHER -> StringLess(Tail(a), Tail(b))

\* a faulty comparator that orders every key ascending
RECURSIVE CompareAscending(_, _, _)
CompareAscending(a, b, sort) ==
    IF sort = << >> THEN 0
    ELSE LET aValue == StringOf(a, Head(sort).field)
             bValue == StringOf(b, Head(sort).field)
         IN  IF aValue # bValue
             THEN (IF StringLess(bValue, aValue) THEN 1 ELSE -1)
             ELSE CompareAscending(a, b, Tail(sort))

\* the comparator passed to filtered.sort
RECURSIVE Compare(_, _, _)
Compare(a, b, sort) ==
    IF sort = << >> THEN 0
    ELSE LET aValue == StringOf(a, Head(sort).field)
             bValue == StringOf(b, Head(sort).field)
         IN  IF aValue # bValue
             THEN (IF Head(sort).direction = "asc"
                   THEN (IF StringLess(bValue, aValue) THEN 1 ELSE -1)
                   ELSE (IF StringLess(aValue, bValue) THEN 1 ELSE -1))
             ELSE Compare(a, b, Tail(sort))

\* Array.prototype.sort is stable: x goes behind the last element that does
\* not compare greater than it
InsertSorted(sorted, x, sort) ==
    LET notAfter == { i \in 1..Len(sorted) : Compare(sorted[i], x, sort) <= 0 }
        at == IF notAfter = {} THEN 0 ELSE CHOOSE i \in notAfter : \A j \in notAfter : j <= i
    IN  SubSeq(sorted, 1, at) \o << x >> \o SubSeq(sorted, at + 1, Len(sorted))

RECURSIVE SortFrom(_, _, _, _)
SortFrom(list, k, sort, sorted) ==
    IF k > Len(list) THEN sorted
    ELSE SortFrom(list, k + 1, sort, InsertSorted(sorted, list[k], sort))

SortTransactions(filtered, q) ==
    IF "sort" \in DOMAIN q THEN SortFrom(filtered, 1, q.sort, << >>) ELSE filtered

\* filtered.slice(start, end): the elements at the 0-based positions
\* start .. end - 1 that exist
Slice(list, start, end) ==
    LET to == IF end < Len(list) THEN end ELSE Len(list)
    IN  IF start >= to THEN << >> ELSE SubSeq(list, start + 1, to)

\* query.page and query.pageSize are both given and neither is 0
Paged(q) ==
    /\ "page" \in DOMAIN q /\ q.page # 0
    /\ "pageSize" \in DOMAIN q /\ q.pageSize # 0

\* a faulty slice that counts the pages from 0
PageTransactionsFromZero(sorted, q) ==
    IF Paged(q) THEN Slice(sorted, q.page * q.pageSize, q.page * q.pageSize + q.pageSize)
    ELSE sorted

PageTransactions(sorted, q) ==
    IF Paged(q) THEN Slice(sorted, (q.page - 1) * q.pageSize,
                           (q.page - 1) * q.pageSize + q.pageSize)
    ELSE sorted

\* what getTransactions(q) returns over the cache
QueryTransactions(cache, q) ==
    PageTransactions(SortTransactions(FilterTransactions(cache, q), q), q)

\* the state part of getTransactions: if (!this.initialized) await this.initialize()
ImplicitInitialize ==
    IF ~initialized
    THEN loadTransactions(files, folders) /\ initialized' = TRUE
    ELSE UNCHANGED <<files, folders, transactions, initialized>>

getTransactions(q) ==
    /\ svc = "transaction"
    /\ ImplicitInitialize
    /\ result' = QueryTransactions(transactions', q)
    /\ last' = [op |-> "query", ok |-> TRUE, q |-> q]
    /\ UNCHANGED <<updates, initCalled>>
    /\ UNCHANGED <<budgetVars, issued, env>>

----------------------------------------------------------------------------
(* Period summary engine: SummaryService *)

Plus(a, b) == IF a = NaN \/ b = NaN THEN NaN ELSE a + b
Minus(a, b) == IF a = NaN \/ b = NaN THEN NaN ELSE a - b

MonthOf(d) == (d \div 100) % 100
DaysInMonth(d) ==
    LET y == getYear(d)
        leap == (y % 4 = 0 /\ y % 100 # 0) \/ y % 400 = 0
    IN  CASE MonthOf(d) \in {4, 6, 9, 11} -> 30
          [] MonthOf(d) = 2 -> IF leap THEN 29 ELSE 28
          [] OTHER -> 31

\* startOfMonth / endOfMonth, startOfQuarter / endOfQuarter, startOfYear / endOfYear
MonthDay(y, m, d) == y * 10000 + m * 100 + d
startOfMonth(d) == MonthDay(getYear(d), MonthOf(d), 1)
endOfMonth(d) == MonthDay(getYear(d), MonthOf(d), DaysInMonth(d))
startOfQuarter(d) == MonthDay(getYear(d), ((MonthOf(d) - 1) \div 3) * 3 + 1, 1)
endOfQuarter(d) == endOfMonth(MonthDay(getYear(d), ((MonthOf(d) - 1) \div 3) * 3 + 3, 1))
startOfYear(d) == MonthDay(getYear(d), 1, 1)
endOfYear(d) == MonthDay(getYear(d), 12, 31)

\* the period of getDailySummary, getMonthlySummary, getQuarterlySummary, getYearlySummary
SummaryPeriod(type, d) ==
    CASE type = "daily" -> [start |-> d, end |-> d]
      [] type = "monthly" -> [start |-> startOfMonth(d), end |-> endOfMonth(d)]
      [] type = "quarterly" -> [start |-> startOfQuarter(d), end |-> endOfQuarter(d)]
      [] OTHER -> [start |-> startOfYear(d), end |-> endOfYear(d)]

\* transactions.filter(t => t.type === type).reduce((sum, t) => sum + t.amount, 0)
RECURSIVE SumOfType(_, _, _)
SumOfType(ts, type, sum) ==
    IF ts = << >> THEN sum
    ELSE SumOfType(Tail(ts), type,
                   IF Get(Head(ts), "type") = type THEN Plus(sum, AmountOf(Head(ts)))
                   ELSE sum)

\* a faulty summary whose net amount adds the expenses instead of subtracting them
calculateGrossSummary(ts, currency) ==
    LET totalIncome == SumOfType(ts, "income", 0)
        totalExpense == SumOfType(ts, "expense", 0)
    IN  [currency |-> currency,
         totalIncome |-> totalIncome,
         totalExpense |-> totalExpense,
         netAmount |-> Plus(totalIncome, totalExpense),
         transactions |-> ts]

calculateCurrencySummary(ts, currency) ==
    LET totalIncome == SumOfType(ts, "income", 0)
        totalExpense == SumOfType(ts, "expense", 0)
    IN  [currency |-> currency,
         totalIncome |-> totalIncome,
         totalExpense |-> totalExpense,
         netAmount |-> Minus(totalIncome, totalExpense),
         transactions |-> ts]

\* the keys of currencyGroups in insertion order
RECURSIVE CurrencyKeys(_, _)
CurrencyKeys(ts, keys) ==
    IF ts = << >> THEN keys
    ELSE CurrencyKeys(Tail(ts),
                      IF Get(Head(ts), "currency") \in SeqToSet(keys) THEN keys
                      ELSE Append(keys, Get(Head(ts), "currency")))

\* currencyGroups.get(currency)
CurrencyGroup(ts, currency) ==
    LET Of(t) == Get(t, "currency") = currency
    IN  SelectSeq(ts, Of)

\* the summaries of generateSummary over the transactions queried
Summaries(ts) ==
    LET keys == CurrencyKeys(ts, << >>)
    IN  [ i \in 1..Len(keys) |-> calculateCurrencySummary(CurrencyGroup(ts, keys[i]), keys[i]) ]

generateSummary(type, d) ==
    LET period == SummaryPeriod(type, d)
        q == [startDate |-> period.start, endDate |-> period.end]
    IN  /\ svc = "transaction"
        /\ ImplicitInitialize
        /\ result' = Summaries(FilterTransactions(transactions', q))
        /\ last' = [op |-> "summary", ok |-> TRUE, q |-> q, type |-> type]
        /\ UNCHANGED <<updates, initCalled>>
        /\ UNCHANGED <<budgetVars, issued, env>>

----------------------------------------------------------------------------
(* Inputs *)

\* the records the callers pass to addTransaction (Omit<Transaction, 'id'>)
TxSamples ==
    { [date |-> 20260320, amount |-> 2000, type |-> "expense", category |-> "food",
       account |-> "cash", description |-> "lunch", currency |-> "CNY"],
      [date |-> 20260305, amount |-> 5000, type |-> "income", category |-> "salary",
       account |-> "bank", currency |-> "CNY"],
      [date |-> 20260401, amount |-> 30, type |-> "expense", category |-> "food",
       account |-> "cash", description |-> "a: b", currency |-> "USD"],
      [date |-> 20240320, amount |-> 2000, type |-> "expense", category |-> "food",
       account |-> "cash", description |-> "lunch", currency |-> "CNY"] }

\* the records added and the edits made while the repository is exercised
AddSamples == { t \in TxSamples : t.date \in {20260320, 20240320} }
UpdateSamples == { t \in TxSamples : t.date \in {20260305, 20240320} }

\* what the forms pass when the amount field holds no number (parseFloat gives
\* NaN) or the date field no date (new Date gives an invalid date)
MalformedSamples ==
    { [date |-> 20260320, amount |-> NaN, type |-> "expense", category |-> "food",
       account |-> "cash", description |-> "lunch", currency |-> "CNY"],
      [date |-> InvalidDate, amount |-> 2000, type |-> "expense", category |-> "food",
       account |-> "cash", description |-> "lunch", currency |-> "CNY"] }

\* the records the callers pass to addBudget and updateBudget
BudgetSamples ==
    { [amount |-> 1000, category |-> "food", period |-> "monthly",
       description |-> "eat", currency |-> "CNY"],
      [amount |-> 30, category |-> "travel", period |-> "yearly",
       status |-> "active", currency |-> "USD"] }

\* the records the callers pass to addRecurringTransaction
RecurringSamples ==
    { [amount |-> 1000, type |-> "expense", category |-> "rent", account |-> "bank",
       description |-> "flat", frequency |-> "monthly", startDate |-> 20260305,
       endDate |-> 20260401, currency |-> "CNY"],
      [amount |-> 30, type |-> "expense", category |-> "music", account |-> "cash",
       description |-> "club", frequency |-> "yearly", startDate |-> 20260320,
       currency |-> "USD"],
      [amount |-> 5000, type |-> "income", category |-> "salary", account |-> "bank",
       frequency |-> "monthly", startDate |-> 20260305, currency |-> "CNY"] }

\* a description that reads like a hand-written list line
DashedBudget ==
    [amount |-> 2000, category |-> "gear", period |-> "yearly",
     description |-> "p - q - r - s - t", currency |-> "CNY"]
DashedRecurring ==
    [amount |-> 2000, type |-> "expense", category |-> "gear", account |-> "cash",
     description |-> "p - q - r - s - t - u - v - w", frequency |-> "yearly",
     startDate |-> 20260320, currency |-> "CNY"]

\* the recurring rules added and the edits made while the repository is exercised
RecurringAddSamples == { t \in RecurringSamples : "endDate" \in DOMAIN t \/ t.type = "income" }
RecurringUpdateSamples == { t \in RecurringSamples : "endDate" \notin DOMAIN t }
CachedRecurringIds ==
    { Get(recurringTransactions[i], "id") : i \in 1..Len(recurringTransactions) }
SomeRecurringIds == CachedRecurringIds \cup {"id-none"}

\* the ids the callers pass: those of the cached records, and one that is no record's
CachedIds == { Get(transactions[i], "id") : i \in 1..Len(transactions) }
SomeIds == CachedIds \cup {"id-none"}
CachedBudgetIds == { Get(budgets[i], "id") : i \in 1..Len(budgets) }
SomeBudgetIds == CachedBudgetIds \cup {"id-none"}

\* the queries the callers pass to getTransactions
Queries ==
    { [startDate |-> 20260301, endDate |-> 20260331],
      [startDate |-> 20260305, endDate |-> 20260320],
      [startDate |-> 20240301, endDate |-> 20240331],
      [startDate |-> 20260306],
      [endDate |-> 20260319, types |-> {"expense"}],
      [categories |-> {"food"}, accounts |-> {"cash"}] }

\* the date-range queries: every pair of bounds over a few dates
QueryDates == {20240301, 20240331, 20260305, 20260320}
RangeQueries == { [startDate |-> s, endDate |-> e] : s \in QueryDates, e \in QueryDates }

SummaryTypes == {"daily", "monthly", "quarterly", "yearly"}
SummaryDates == {20260320}

----------------------------------------------------------------------------
(* Specification: the repositories, one call at a time.  The repositories   *)
(* share nothing but the year folders, whose creation never fails a call; *)
(* a behaviour exercises one of them.                                     *)

NoCall == [op |-> "none", ok |-> TRUE]

InitVault ==
    /\ files = << >>
    /\ folders = {}
    /\ transactions = << >>
    /\ initialized = FALSE
    /\ budgets = << >>
    /\ budgetInitialized = FALSE
    /\ issued = << >>
    /\ updates = 0
    /\ initCalled = FALSE
    /\ last = NoCall
    /\ result = << >>
    /\ calls = << >>
    /\ recurringTransactions = << >>
    /\ listeners = << >> /\ views = << >>

\* a recurring repository starts with the load of its constructor in flight
Init ==
    /\ InitVault
    /\ svc \in {"transaction", "budget", "recurring"}
    /\ recurringLoading = (svc = "recurring")

Next ==
    \/ initialize
    \/ \E t \in AddSamples : addTransaction(t)
    \/ \E t \in UpdateSamples, id \in SomeIds : updateTransaction(SetKey(t, "id", id))
    \/ \E id \in SomeIds : deleteTransaction(id)
    \/ \E year \in Years : loadTransactionsByYear(year)
    \/ Budget_initialize
    \/ \E b \in BudgetSamples : addBudget(b)
    \/ \E b \in BudgetSamples, id \in SomeBudgetIds : updateBudget(SetKey(b, "id", id))
    \/ \E id \in SomeBudgetIds : deleteBudget(id)
    \/ loadRecurringTransactions
    \/ \E t \in RecurringAddSamples : addRecurringTransaction(t)
    \/ \E t \in RecurringUpdateSamples, id \in SomeRecurringIds :
           updateRecurringTransaction(SetKey(t, "id", id))
    \/ \E id \in SomeRecurringIds : deleteRecurringTransaction(id)

Spec == Init /\ [][Next]_vars

----------------------------------------------------------------------------
(* Specification: queries and summaries over a loaded repository.  The     *)
(* initial states are those a caller reaches by an optional initialize()   *)
(* followed by up to QueryRecords addTransaction calls.                    *)

QueryRecords == 3

\* the documents after addTransaction was called for ts[i], ts[i+1], ... in turn
RECURSIVE StoreOf(_, _, _)
StoreOf(ts, i, fs) ==
    IF i > Len(ts) THEN fs
    ELSE StoreOf(ts, i + 1,
                 getOrCreateFinanceFile(
                     addTransactionToContent(fs, SetKey(ts[i], "id", IdPool[i])),
                     CurrentYear))

StoredSequences == UNION { [1..n -> TxSamples] : n \in 0..QueryRecords }

InitQuery ==
    \E ts \in StoredSequences, init \in BOOLEAN :
        LET fs0 == IF init THEN getOrCreateFinanceFile(<< >>, CurrentYear) ELSE << >>
        IN  /\ files = StoreOf(ts, 1, fs0)
            /\ folders = { getYear(ts[i].date) : i \in 1..Len(ts) }
                         \cup (IF init \/ Len(ts) > 0 THEN {CurrentYear} ELSE {})
            /\ transactions = LoadedTransactions(files, CurrentYear)
            /\ initialized = init
            /\ initCalled = init
            /\ issued = SubSeq(IdPool, 1, Len(ts))
            /\ budgets = << >> /\ budgetInitialized = FALSE
            /\ svc = "transaction"
            /\ updates = 0
            /\ last = NoCall
            /\ result = << >>
            /\ calls = << >>
            /\ recurringTransactions = << >> /\ recurringLoading = FALSE
            /\ listeners = << >> /\ views = << >>

NextQuery ==
    \/ \E q \in Queries \cup RangeQueries : getTransactions(q)
    \/ \E type \in SummaryTypes, d \in SummaryDates : generateSummary(type, d)
    \/ \E year \in Years : loadTransactionsByYear(year)

SpecQuery == InitQuery /\ [][NextQuery]_vars

----------------------------------------------------------------------------
(* Specification: sorted and paginated queries over the stores of          *)
(* SpecQuery.                                                              *)

MaxPage == 3
MaxPageSize == 2

Asc(field) == [field |-> field, direction |-> "asc"]
Desc(field) == [field |-> field, direction |-> "desc"]

\* the sort lists the callers pass
SortLists ==
    { << Asc("amount") >>, << Desc("amount") >>, << Asc("date") >>, << Desc("date") >>,
      << Asc("category"), Desc("amount") >>, << Desc("type"), Asc("description") >>,
      << Asc("category"), Asc("account") >>, << Asc("currency"), Desc("id") >> }

SortQueries ==
    { [sort |-> sort] : sort \in SortLists }
    \cup { [types |-> {"expense"}, sort |-> << Asc("currency"), Desc("date") >>] }

PageQueries ==
    { [page |-> page, pageSize |-> pageSize] : page \in 1..MaxPage, pageSize \in 1..MaxPageSize }
    \cup { [sort |-> << Desc("amount") >>, page |-> page, pageSize |-> pageSize] :
              page \in 1..MaxPage, pageSize \in 1..MaxPageSize }
    \cup { [page |-> 2], [pageSize |-> 1], [sort |-> << Asc("amount") >>, pageSize |-> 1] }

NextSort ==
    \/ \E q \in SortQueries : getTransactions(q)
    \/ \E q \in PageQueries : getTransactions(q)

SpecSort == InitQuery /\ [][NextSort]_vars

----------------------------------------------------------------------------
(* Specification: the edit form saved over the stores of SpecQuery.  The   *)
(* form is opened on a cached record and submits the record either as it   *)
(* is or with another amount.                                              *)

EditedAmounts == {30}

NextEdit ==
    \/ \E id \in CachedIds : updateTransaction(transactions[FindIndex(transactions, id)])
    \/ \E id \in CachedIds, amount \in EditedAmounts :
          updateTransaction(SetKey(transactions[FindIndex(transactions, id)], "amount", amount))
    \/ initialize

SpecEdit == InitQuery /\ [][NextEdit]_vars

----------------------------------------------------------------------------
(* Specification: the repositories over a store that can fail.  A call of  *)
(* the store (create, read, modify) may raise; the actions below are the   *)
(* handlers when the call named by fault raises.                           *)

\* initialize() when the store raises: loadTransactions catches the error,
\* logs it and empties the cache; initialize() then sets the flag and resolves
initializeFailing(fault) ==
    /\ svc = "transaction" /\ ~initialized
    /\ fault \in {"create", "read"}
    /\ fault = "create" => ~Exists(files, "Transaction", CurrentYear)
    /\ files' = IF fault = "create" THEN files
                ELSE getOrCreateFinanceFile(files, CurrentYear)
    /\ folders' = ensureDirectoryExists(folders, CurrentYear)
    /\ transactions' = << >>
    /\ initialized' = TRUE
    /\ last' = [op |-> "initialize", ok |-> TRUE, loaded |-> FALSE, fault |-> fault]
    /\ result' = << >>
    /\ initCalled' = TRUE
    /\ UNCHANGED <<budgetVars, issued, env, updates>>

\* addTransaction when the store raises: in addTransactionToContent (read,
\* modify) the error reaches the caller; in the reload that follows the write
\* loadTransactions catches it, and the call emits its signal and resolves
addTransactionFailing(t, fault) ==
    /\ svc = "transaction"
    /\ Len(issued) < MaxAdds
    /\ fault \in {"read", "modify", "reload"}
    /\ LET newTransaction == SetKey(t, "id", randomUUID(issued))
       IN  IF fault = "reload"
           THEN /\ files' = getOrCreateFinanceFile(
                                addTransactionToContent(files, newTransaction), CurrentYear)
                /\ folders' = ensureDirectoryExists(
                                  ensureDirectoryExists(folders, getYear(t.date)), CurrentYear)
                /\ transactions' = << >>
                /\ listeners' = Emit(listeners, TRANSACTION_CHANGED).listeners
                /\ last' = [op |-> "add", ok |-> ~Emit(listeners, TRANSACTION_CHANGED).threw,
                            arg |-> t, id |-> newTransaction.id,
                            signals |-> << TRANSACTION_CHANGED >>, fault |-> fault]
                /\ result' = << newTransaction >>
           ELSE /\ files' = getOrCreateFinanceFile(files, getYear(t.date))
                /\ folders' = ensureDirectoryExists(folders, getYear(t.date))
                /\ UNCHANGED <<transactions, listeners>>
                /\ last' = [op |-> "add", ok |-> FALSE, arg |-> t, signals |-> << >>,
                            fault |-> fault]
                /\ result' = << >>
    /\ issued' = Append(issued, randomUUID(issued))
    /\ UNCHANGED <<updates, initCalled>>
    /\ UNCHANGED <<budgetVars, initialized, callEnv>>

\* BudgetService.initialize() when the store raises: its own create is inside
\* its try block, the read is inside that of loadBudgets; both errors are
\* logged and the call resolves
Budget_initializeFailing(fault) ==
    /\ svc = "budget"
    /\ fault \in {"create", "read"}
    /\ fault = "create" => ~Exists(files, "Budget", CurrentYear)
    /\ fault = "read" => ~budgetInitialized
    /\ folders' = ensureDirectoryExists(folders, CurrentYear)
    /\ files' = IF fault = "create" THEN files
                ELSE Budget_getOrCreateFinanceFile(files, CurrentYear)
    /\ IF fault = "read"
       THEN budgets' = << >> /\ budgetInitialized' = TRUE
       ELSE UNCHANGED <<budgets, budgetInitialized>>
    /\ last' = [op |-> "initialize", ok |-> TRUE, loaded |-> FALSE, fault |-> fault]
    /\ result' = << >>
    /\ initCalled' = TRUE
    /\ UNCHANGED <<transactionVars, issued, env, updates>>

StoreFaults == {"create", "read", "modify", "reload"}

NextFault ==
    \/ initialize
    \/ \E t \in AddSamples : addTransaction(t)
    \/ Budget_initialize
    \/ \E b \in BudgetSamples : addBudget(b)
    \/ \E fault \in StoreFaults : initializeFailing(fault)
    \/ \E t \in AddSamples, fault \in StoreFaults : addTransactionFailing(t, fault)
    \/ \E fault \in StoreFaults : Budget_initializeFailing(fault)

SpecFault == Init /\ [][NextFault]_vars

----------------------------------------------------------------------------
(* Specification: the event bus on its own.  Callers subscribe, unsubscribe *)
(* and emit; up to MaxListeners registrations are made.                     *)

MaxListeners == 3

BusEvents == {TRANSACTION_CHANGED, BUDGET_CHANGED}
Handlers == { Handler(o) : o \in {"f", "thrower", "leaver", "kicker"} }

\* the number of registrations on the bus
RECURSIVE CountRegistered(_, _)
CountRegistered(ls, events) ==
    IF events = {} THEN 0
    ELSE LET e == CHOOSE x \in events : TRUE
         IN  Len(ls[e]) + CountRegistered(ls, events \ {e})

busFrame == UNCHANGED <<files, folders, transactionVars, budgetVars, issued, svc,
                        updates, initCalled, calls, recurringVars>>

subscribe(event, cb) ==
    /\ CountRegistered(listeners, DOMAIN listeners) < MaxListeners
    /\ listeners' = Subscribe(listeners, event, cb)
    /\ last' = [op |-> "subscribe", ok |-> TRUE, event |-> event, cb |-> cb]
    /\ result' = << >>
    /\ UNCHANGED views
    /\ busFrame

unsubscribe(event, cb) ==
    /\ listeners' = Unsubscribe(listeners, event, cb)
    /\ last' = [op |-> "unsubscribe", ok |-> TRUE, event |-> event, cb |-> cb]
    /\ result' = << >>
    /\ UNCHANGED views
    /\ busFrame

\* emit(event) called by a caller of the bus: an exception of a callback
\* reaches it
emit(event) ==
    /\ listeners' = Emit(listeners, event).listeners
    /\ last' = [op |-> "emit", ok |-> ~Emit(listeners, event).threw, event |-> event]
    /\ result' = Emit(listeners, event).invoked
    /\ UNCHANGED views
    /\ busFrame

InitBus ==
    /\ InitVault
    /\ svc = "bus"
    /\ recurringLoading = FALSE

NextBus ==
    \/ \E event \in BusEvents, cb \in Handlers : subscribe(event, cb)
    \/ \E event \in BusEvents, cb \in Handlers : unsubscribe(event, cb)
    \/ \E event \in BusEvents : emit(event)

SpecBus == InitBus /\ [][NextBus]_vars

----------------------------------------------------------------------------
(* Specification: views over a transaction repository.  Up to MaxViews     *)
(* table and chart views are created and closed while transactions are     *)
(* added and deleted and a caller registers a handler of its own.          *)

MaxViews == 2

\* the closure a handler of a view evaluates to: a new function each time
\* the arrow expression is evaluated
ViewCallback(type, view, made) == Callback(type, view, made)

\* new FinanceTableView(...): setupEventListeners subscribes one arrow
\* function per event
FinanceTableView_setupEventListeners ==
    /\ Len(views) < MaxViews
    /\ LET view == Len(views) + 1
           l1 == Subscribe(listeners, TRANSACTION_CHANGED,
                           ViewCallback("table", view, "setup-transaction"))
           l2 == Subscribe(l1, BUDGET_CHANGED, ViewCallback("table", view, "setup-budget"))
       IN  listeners' = Subscribe(l2, RECURRING_TRANSACTION_CHANGED,
                                  ViewCallback("table", view, "setup-recurring"))
    /\ views' = Append(views, [type |-> "table", open |-> TRUE])
    /\ last' = [op |-> "open", ok |-> TRUE, view |-> Len(views) + 1]
    /\ result' = << >>
    /\ busFrame

\* FinanceTableView.onClose: unsubscribe is passed three arrow functions
\* written in place
FinanceTableView_onClose(view) ==
    /\ view \in 1..Len(views) /\ views[view].type = "table" /\ views[view].open
    /\ LET l1 == Unsubscribe(listeners, TRANSACTION_CHANGED,
                             ViewCallback("table", view, "close-transaction"))
           l2 == Unsubscribe(l1, BUDGET_CHANGED, ViewCallback("table", view, "close-budget"))
       IN  listeners' = Unsubscribe(l2, RECURRING_TRANSACTION_CHANGED,
                                    ViewCallback("table", view, "close-recurring"))
    /\ views' = [views EXCEPT ![view].open = FALSE]
    /\ last' = [op |-> "close", ok |-> TRUE, view |-> view]
    /\ result' = << >>
    /\ busFrame

\* ChartView.onOpen: subscribes the function handleTransactionChange it
\* declares locally
ChartView_onOpen ==
    /\ Len(views) < MaxViews
    /\ listeners' = Subscribe(listeners, TRANSACTION_CHANGED,
                              ViewCallback("chart", Len(views) + 1, "onOpen"))
    /\ views' = Append(views, [type |-> "chart", open |-> TRUE])
    /\ last' = [op |-> "open", ok |-> TRUE, view |-> Len(views) + 1]
    /\ result' = << >>
    /\ busFrame

\* ChartView.onClose: declares handleTransactionChange again and passes that
\* function to unsubscribe
ChartView_onClose(view) ==
    /\ view \in 1..Len(views) /\ views[view].type = "chart" /\ views[view].open
    /\ listeners' = Unsubscribe(listeners, TRANSACTION_CHANGED,
                                ViewCallback("chart", view, "onClose"))
    /\ views' = [views EXCEPT ![view].open = FALSE]
    /\ last' = [op |-> "close", ok |-> TRUE, view |-> view]
    /\ result' = << >>
    /\ busFrame

\* the record added while the views are exercised
ViewSamples == { t \in AddSamples : t.date = 20260320 }

InitViews == InitVault /\ svc = "transaction" /\ recurringLoading = FALSE

NextViews ==
    \/ FinanceTableView_setupEventListeners
    \/ \E view \in 1..MaxViews : FinanceTableView_onClose(view)
    \/ ChartView_onOpen
    \/ \E view \in 1..MaxViews : ChartView_onClose(view)
    \/ \E cb \in {Handler("thrower")} : subscribe(TRANSACTION_CHANGED, cb)
    \/ initialize
    \/ \E t \in ViewSamples : addTransaction(t)
    \/ \E t \in ViewSamples, id \in CachedIds : updateTransaction(SetKey(t, "id", id))
    \/ \E id \in CachedIds : deleteTransaction(id)

SpecViews == InitViews /\ [][NextViews]_vars

----------------------------------------------------------------------------
(* Specification: adding records as the forms pass them, well-formed or    *)
(* not, to a transaction repository on an empty vault.                     *)

InitUnchecked == InitVault /\ svc = "transaction" /\ recurringLoading = FALSE

NextUnchecked ==
    \/ initialize
    \/ \E t \in AddSamples \cup MalformedSamples : addTransaction(t)
    \/ \E id \in SomeIds : deleteTransaction(id)

SpecUnchecked == InitUnchecked /\ [][NextUnchecked]_vars

----------------------------------------------------------------------------
(* Specification: listing budgets and recurring rules.  The initial states *)
(* are those a caller reaches by up to ListRecords add calls on an empty   *)
(* vault; the listing queries and deletes by a listed id follow.           *)

ListRecords == 2

\* the documents after add was called for rs[i], rs[i+1], ... in turn
RECURSIVE ListStoreOf(_, _, _, _)
ListStoreOf(kind, rs, i, fs) ==
    IF i > Len(rs) THEN fs
    ELSE ListStoreOf(kind, rs, i + 1,
             IF kind = "Budget"
             THEN addBudgetToContent(fs, SetKey(rs[i], "id", IdPool[i]))
             ELSE addRecurringTransactionToContent(fs, SetKey(rs[i], "id", IdPool[i])))

\* the caches after the same calls: each add pushes its record
PushedOf(rs) == [i \in 1..Len(rs) |-> SetKey(rs[i], "id", IdPool[i])]

ListedSequences(kind) ==
    UNION { [1..n -> IF kind = "Budget" THEN BudgetSamples \cup {DashedBudget}
                     ELSE RecurringAddSamples \cup {DashedRecurring}] :
            n \in 0..ListRecords }

\* the ids the last listing returned
QueriedIds == IF last.op = "list" THEN { result[i].id : i \in 1..Len(result) } ELSE {}

InitList ==
    \E kind \in {"Budget", RecurringKind} : \E rs \in ListedSequences(kind) :
        /\ svc = (IF kind = "Budget" THEN "budget" ELSE "recurring")
        /\ files = ListStoreOf(kind, rs, 1, << >>)
        /\ folders = IF rs = << >> THEN {} ELSE {CurrentYear}
        /\ budgets = (IF kind = "Budget" THEN PushedOf(rs) ELSE << >>)
        /\ recurringTransactions = (IF kind = "Budget" THEN << >> ELSE PushedOf(rs))
        /\ issued = SubSeq(IdPool, 1, Len(rs))
        /\ budgetInitialized = FALSE /\ recurringLoading = FALSE
        /\ listeners = << >> /\ views = << >>
        /\ transactions = << >> /\ initialized = FALSE
        /\ updates = 0 /\ initCalled = FALSE
        /\ last = NoCall /\ result = << >> /\ calls = << >>

NextList ==
    \/ \E year \in Years : getBudgets(year)
    \/ \E year \in Years : getRecurringTransactions(year)
    \/ \E id \in QueriedIds \cup CachedBudgetIds : deleteBudget(id)
    \/ \E id \in QueriedIds \cup CachedRecurringIds : deleteRecurringTransaction(id)

SpecList == InitList /\ [][NextList]_vars

----------------------------------------------------------------------------
(* Specification: the record codecs.  Records of the three kinds are       *)
(* encoded and decoded again, and transaction documents made of up to      *)
(* DocBlocks blocks, some of them lacking a field line, are decoded.       *)

DocBlocks == 3

WithId(samples) == { SetKey(r, "id", id) : r \in samples, id \in {IdPool[1], IdPool[2]} }

\* the block of t as a hand edit leaves it after removing the line of one field
WithoutLine(block, label) ==
    LET Kept(line) == ~(StartsWithField(line) /\ line[1].k = label)
    IN  SelectSeq(block, Kept)

\* the records written to the documents decoded: their blocks decode to themselves
DocSamples == { t \in TxSamples : Get(t, "description") = "lunch" }
OmittedLines == {"none", "Amount", "ID"}
BlockChoices == [rec : DocSamples, omit : OmittedLines]
DocumentsOf == UNION { [1..n -> BlockChoices] : n \in 0..DocBlocks }

\* the text of a document of the current year that holds the blocks given
RECURSIVE DocumentText(_, _, _)
DocumentText(blocks, i, text) ==
    IF i > Len(blocks) THEN text
    ELSE DocumentText(blocks, i + 1,
             Cat(text, WithoutLine(formatTransaction(SetKey(blocks[i].rec, "id", IdPool[i])),
                                   blocks[i].omit)))

\* a section a user wrote into the document by hand: '## Notes memo' and a
\* remark under it
ForeignSection ==
    << HeaderLine("Notes", "memo"), BlankLine, FieldLine("Remark", "keep"),
       BlankLine, BlankLine >>

\* the text of a document holding the blocks of the records given, with the
\* foreign section right after the block of record number after
RECURSIVE AnnotatedText(_, _, _, _)
AnnotatedText(recs, after, i, text) ==
    IF i > Len(recs) THEN text
    ELSE LET block == Cat(text, formatTransaction(SetKey(recs[i], "id", IdPool[i])))
         IN  AnnotatedText(recs, after, i + 1,
                           IF i = after THEN Cat(block, ForeignSection) ELSE block)

\* the deletions made in annotated documents
RemoveCalls ==
    { [op |-> "remove", ok |-> TRUE, id |-> IdPool[n],
       content |-> AnnotatedText(recs, after, 1, getInitialContent(CurrentYear))] :
          <<recs, after, n>> \in
              { c \in (UNION { [1..k -> DocSamples] : k \in 1..(DocBlocks - 1) })
                        \X (1..DocBlocks) \X (1..DocBlocks) :
                    c[2] <= Len(c[1]) /\ c[3] <= Len(c[1]) } }

codecFrame == UNCHANGED <<files, folders, transactions, initialized, budgets,
                          budgetInitialized, issued, env, updates, initCalled>>

\* the calls made to the codecs: a record to encode and decode again, or the
\* blocks of a document to decode
CodecCalls ==
    { [op |-> "encode", ok |-> TRUE, kind |-> "Transaction", arg |-> t] :
          t \in WithId(TxSamples) }
    \cup { [op |-> "encode", ok |-> TRUE, kind |-> "Budget", arg |-> b] :
               b \in WithId(BudgetSamples) }
    \cup { [op |-> "encode", ok |-> TRUE, kind |-> "Recurring Transaction", arg |-> t] :
               t \in WithId(RecurringSamples) }
    \cup { [op |-> "document", ok |-> TRUE, blocks |-> blocks] : blocks \in DocumentsOf }
    \cup RemoveCalls

encodeDecodeTransaction ==
    /\ svc = "codec" /\ last.op = "encode" /\ last.kind = "Transaction"
    /\ result' = parseTransactionsFromContent(formatTransaction(last.arg))
    /\ last' = [last EXCEPT !.op = "roundtrip"]
    /\ codecFrame

encodeDecodeBudget ==
    /\ svc = "codec" /\ last.op = "encode" /\ last.kind = "Budget"
    /\ result' = parseBudgetsFromContent(formatBudget(last.arg))
    /\ last' = [last EXCEPT !.op = "roundtrip"]
    /\ codecFrame

encodeDecodeRecurringTransaction ==
    /\ svc = "codec" /\ last.op = "encode" /\ last.kind = "Recurring Transaction"
    /\ result' = parseRecurringTransactionsFromContent(formatRecurringTransaction(last.arg))
    /\ last' = [last EXCEPT !.op = "roundtrip"]
    /\ codecFrame

decodeDocument ==
    /\ svc = "codec" /\ last.op = "document"
    /\ result' = parseTransactionsFromContent(
                     DocumentText(last.blocks, 1, getInitialContent(CurrentYear)))
    /\ last' = [last EXCEPT !.op = "decode"]
    /\ codecFrame

\* deleteTransactionFromContent on the annotated document of the current year
removeFromDocument ==
    /\ svc = "codec" /\ last.op = "remove"
    /\ result' = deleteTransactionFromContent(
                     Create(<< >>, "Transaction", CurrentYear, last.content),
                     last.id, CurrentYear * 10000 + 101)[<<"Transaction", CurrentYear>>]
    /\ last' = [last EXCEPT !.op = "removed"]
    /\ codecFrame

InitCodec ==
    /\ files = << >> /\ folders = {}
    /\ transactions = << >> /\ initialized = FALSE
    /\ budgets = << >> /\ budgetInitialized = FALSE
    /\ issued = << >> /\ updates = 0 /\ initCalled = FALSE
    /\ svc = "codec"
    /\ last \in CodecCalls
    /\ result = << >>
    /\ calls = << >>
    /\ recurringTransactions = << >> /\ recurringLoading = FALSE
    /\ listeners = << >> /\ views = << >>

NextCodec ==
    \/ encodeDecodeTransaction
    \/ encodeDecodeBudget
    \/ encodeDecodeRecurringTransaction
    \/ decodeDocument
    \/ removeFromDocument

SpecCodec == InitCodec /\ [][NextCodec]_vars

----------------------------------------------------------------------------
(* Specification: addTransaction calls in flight together.  A call runs up  *)
(* to its next await in one step; the vault operation it awaits takes       *)
(* effect in that step.  Two callers (a double click) issue the calls.      *)

Callers == {"c1", "c2"}
Idle == [pc |-> "idle"]
Resting == {"idle", "done", "failed"}

\* no view is open and no callback registered while the calls race, so the
\* emit of a completing call invokes nobody
raceFrame == UNCHANGED <<initialized, budgetVars, recurringVars, busVars, svc, updates,
                         initCalled>>

Goto(c, label) == calls' = [calls EXCEPT ![c].pc = label]
YearOf(c) == getYear(calls[c].t.date)

\* a faulty write that appends the block to the text the document has now
addModifyCurrent(fs, call) ==
    LET year == getYear(call.t.date)
    IN  Modify(fs, "Transaction", year,
               Cat(fs[<<"Transaction", year>>], formatTransaction(call.t)))

\* vault.modify(file, content + this.formatTransaction(transaction)), content
\* being the text the call read
addModify(fs, call) ==
    Modify(fs, "Transaction", getYear(call.t.date),
           Cat(call.content, formatTransaction(call.t)))

\* addTransaction is called: the id is drawn, and addTransactionToContent ->
\* getOrCreateFinanceFile -> ensureDirectoryExists awaits createFolder
add_createFolder(c, t) ==
    /\ svc = "race" /\ calls[c].pc \in Resting
    /\ Len(issued) < MaxAdds
    /\ LET newTransaction == SetKey(t, "id", randomUUID(issued))
       IN  calls' = [calls EXCEPT ![c] = [pc |-> "lookup", t |-> newTransaction,
                                          content |-> << >>, loaded |-> << >>]]
    /\ issued' = Append(issued, randomUUID(issued))
    /\ folders' = ensureDirectoryExists(folders, getYear(t.date))
    /\ UNCHANGED <<files, transactions, last, result>>
    /\ raceFrame

\* getAbstractFileByPath: the file is there (read is awaited) or not (create is)
add_lookup(c) ==
    /\ svc = "race" /\ calls[c].pc = "lookup"
    /\ Goto(c, IF Exists(files, "Transaction", YearOf(c)) THEN "read" ELSE "create")
    /\ UNCHANGED <<files, folders, transactions, issued, last, result>>
    /\ raceFrame

\* vault.create: it throws when the file exists by now, and addTransaction rejects
add_create(c) ==
    /\ svc = "race" /\ calls[c].pc = "create"
    /\ IF Exists(files, "Transaction", YearOf(c))
       THEN /\ Goto(c, "failed")
            /\ last' = [op |-> "add", ok |-> FALSE, signals |-> << >>]
            /\ result' = << >>
            /\ UNCHANGED files
       ELSE /\ Goto(c, "read")
            /\ files' = Create(files, "Transaction", YearOf(c), getInitialContent(YearOf(c)))
            /\ UNCHANGED <<last, result>>
    /\ UNCHANGED <<folders, transactions, issued>>
    /\ raceFrame

\* const content = await this.app.vault.read(file)
add_read(c) ==
    /\ svc = "race" /\ calls[c].pc = "read"
    /\ calls' = [calls EXCEPT ![c].pc = "modify",
                              ![c].content = files[<<"Transaction", YearOf(c)>>]]
    /\ UNCHANGED <<files, folders, transactions, issued, last, result>>
    /\ raceFrame

\* await this.app.vault.modify(file, newContent)
add_modify(c) ==
    /\ svc = "race" /\ calls[c].pc = "modify"
    /\ files' = addModify(files, calls[c])
    /\ Goto(c, "reload")
    /\ UNCHANGED <<folders, transactions, issued, last, result>>
    /\ raceFrame

\* loadTransactions -> getOrCreateFinanceFile(currentYear) awaits createFolder
load_createFolder(c) ==
    /\ svc = "race" /\ calls[c].pc = "reload"
    /\ folders' = ensureDirectoryExists(folders, CurrentYear)
    /\ Goto(c, "reloadLookup")
    /\ UNCHANGED <<files, transactions, issued, last, result>>
    /\ raceFrame

load_lookup(c) ==
    /\ svc = "race" /\ calls[c].pc = "reloadLookup"
    /\ Goto(c, IF Exists(files, "Transaction", CurrentYear) THEN "reloadRead"
               ELSE "reloadCreate")
    /\ UNCHANGED <<files, folders, transactions, issued, last, result>>
    /\ raceFrame

\* the call returns: emit(TRANSACTION_CHANGED); return newTransaction
Completes(c) ==
    /\ Goto(c, "done")
    /\ last' = [op |-> "add", ok |-> TRUE, arg |-> calls[c].t, id |-> calls[c].t.id,
                signals |-> << TRANSACTION_CHANGED >>]
    /\ result' = << calls[c].t >>

\* vault.create inside loadTransactions: when it throws, the catch empties the cache
load_create(c) ==
    /\ svc = "race" /\ calls[c].pc = "reloadCreate"
    /\ IF Exists(files, "Transaction", CurrentYear)
       THEN /\ transactions' = << >>
            /\ Completes(c)
            /\ UNCHANGED files
       ELSE /\ Goto(c, "reloadRead")
            /\ files' = Create(files, "Transaction", CurrentYear,
                               getInitialContent(CurrentYear))
            /\ UNCHANGED <<transactions, last, result>>
    /\ UNCHANGED <<folders, issued>>
    /\ raceFrame

load_read(c) ==
    /\ svc = "race" /\ calls[c].pc = "reloadRead"
    /\ calls' = [calls EXCEPT ![c].pc = "reloadAssign",
                              ![c].loaded = files[<<"Transaction", CurrentYear>>]]
    /\ UNCHANGED <<files, folders, transactions, issued, last, result>>
    /\ raceFrame

\* this.transactions = this.parseTransactionsFromContent(content)
load_assign(c) ==
    /\ svc = "race" /\ calls[c].pc = "reloadAssign"
    /\ transactions' = parseTransactionsFromContent(calls[c].loaded)
    /\ Completes(c)
    /\ UNCHANGED <<files, folders, issued>>
    /\ raceFrame

InitRace ==
    /\ files = << >> /\ folders = {}
    /\ transactions = << >> /\ initialized = FALSE
    /\ budgets = << >> /\ budgetInitialized = FALSE
    /\ issued = << >> /\ updates = 0 /\ initCalled = FALSE
    /\ svc = "race"
    /\ last = NoCall
    /\ result = << >>
    /\ calls = [c \in Callers |-> Idle]
    /\ recurringTransactions = << >> /\ recurringLoading = FALSE
    /\ listeners = << >> /\ views = << >>

NextRace ==
    \E c \in Callers :
        \/ \E t \in AddSamples : add_createFolder(c, t)
        \/ add_lookup(c)
        \/ add_create(c)
        \/ add_read(c)
        \/ add_modify(c)
        \/ load_createFolder(c)
        \/ load_lookup(c)
        \/ load_create(c)
        \/ load_read(c)
        \/ load_assign(c)

SpecRace == InitRace /\ [][NextRace]_vars

----------------------------------------------------------------------------
(* Specification: the plugin starts.  The constructor of                   *)
(* RecurringTransactionService has called loadRecurringTransactions and    *)
(* not awaited it; the forms call addRecurringTransaction while the load   *)
(* is at one of its awaits.  Every await is a step.                        *)

Loader == "load"
Adders == {"a1", "a2"}

\* the records the forms add while the plugin starts
StartupSamples == { t \in RecurringSamples : t.type = "income" \/ "endDate" \in DOMAIN t }

\* no callback is registered while the plugin starts
startupFrame == UNCHANGED <<transactionVars, budgetVars, busVars, svc, updates, initCalled>>

RecurringExists == Exists(files, RecurringKind, CurrentYear)

\* loadRecurringTransactions -> getOrCreateFinanceFile: after createFolder,
\* getAbstractFileByPath
recurring_load_lookup ==
    /\ svc = "startup" /\ calls[Loader].pc = "lookup"
    /\ folders' = ensureDirectoryExists(folders, CurrentYear)
    /\ Goto(Loader, IF RecurringExists THEN "read" ELSE "create")
    /\ UNCHANGED <<files, issued, recurringVars, last, result>>
    /\ startupFrame

\* vault.create: it throws when the file exists by now; the catch of
\* loadRecurringTransactions then empties the cache
recurring_load_create ==
    /\ svc = "startup" /\ calls[Loader].pc = "create"
    /\ IF RecurringExists
       THEN /\ recurringTransactions' = << >>
            /\ recurringLoading' = FALSE
            /\ Goto(Loader, "done")
            /\ last' = [op |-> "load", ok |-> TRUE]
            /\ UNCHANGED files
       ELSE /\ files' = Create(files, RecurringKind, CurrentYear,
                               Recurring_getInitialContent(CurrentYear))
            /\ Goto(Loader, "read")
            /\ UNCHANGED <<recurringVars, last>>
    /\ UNCHANGED <<folders, issued, result>>
    /\ startupFrame

\* const content = await this.app.vault.read(file)
recurring_load_read ==
    /\ svc = "startup" /\ calls[Loader].pc = "read"
    /\ calls' = [calls EXCEPT ![Loader].pc = "assign",
                              ![Loader].content = files[<<RecurringKind, CurrentYear>>]]
    /\ UNCHANGED <<files, folders, issued, recurringVars, last, result>>
    /\ startupFrame

\* this.recurringTransactions = this.parseRecurringTransactionsFromContent(content)
recurring_load_assign ==
    /\ svc = "startup" /\ calls[Loader].pc = "assign"
    /\ recurringTransactions' = parseRecurringTransactionsFromContent(calls[Loader].content)
    /\ recurringLoading' = FALSE
    /\ Goto(Loader, "done")
    /\ last' = [op |-> "load", ok |-> TRUE]
    /\ UNCHANGED <<files, folders, issued, result>>
    /\ startupFrame

\* addRecurringTransaction is called: the id is drawn and the record pushed
\* to the cache; addRecurringTransactionToContent -> getOrCreateFinanceFile
\* awaits createFolder
recurring_add_push(c, t) ==
    /\ svc = "startup" /\ calls[c].pc = "idle"
    /\ Len(issued) < MaxAdds
    /\ LET newTransaction == SetKey(t, "id", randomUUID(issued))
       IN  /\ recurringTransactions' = Append(recurringTransactions, newTransaction)
           /\ calls' = [calls EXCEPT ![c] = [pc |-> "lookup", t |-> newTransaction,
                                              content |-> << >>]]
    /\ issued' = Append(issued, randomUUID(issued))
    /\ UNCHANGED <<files, folders, recurringLoading, last, result>>
    /\ startupFrame

\* getYear(transaction.startDate) of the call
StartYear(c) == getYear(calls[c].t.startDate)

recurring_add_lookup(c) ==
    /\ svc = "startup" /\ c \in Adders /\ calls[c].pc = "lookup"
    /\ folders' = ensureDirectoryExists(folders, StartYear(c))
    /\ Goto(c, IF Exists(files, RecurringKind, StartYear(c)) THEN "read" ELSE "create")
    /\ UNCHANGED <<files, issued, recurringVars, last, result>>
    /\ startupFrame

\* vault.create: it throws when the file exists by now, and the add rejects
recurring_add_create(c) ==
    /\ svc = "startup" /\ c \in Adders /\ calls[c].pc = "create"
    /\ IF Exists(files, RecurringKind, StartYear(c))
       THEN /\ Goto(c, "failed")
            /\ last' = [op |-> "add", ok |-> FALSE, arg |-> calls[c].t, signals |-> << >>]
            /\ result' = << >>
            /\ UNCHANGED files
       ELSE /\ files' = Create(files, RecurringKind, StartYear(c),
                               Recurring_getInitialContent(StartYear(c)))
            /\ Goto(c, "read")
            /\ UNCHANGED <<last, result>>
    /\ UNCHANGED <<folders, issued, recurringVars>>
    /\ startupFrame

recurring_add_read(c) ==
    /\ svc = "startup" /\ c \in Adders /\ calls[c].pc = "read"
    /\ calls' = [calls EXCEPT ![c].pc = "modify",
                              ![c].content = files[<<RecurringKind, StartYear(c)>>]]
    /\ UNCHANGED <<files, folders, issued, recurringVars, last, result>>
    /\ startupFrame

\* vault.modify(file, content + block), then the signal and the return
recurring_add_modify(c) ==
    /\ svc = "startup" /\ c \in Adders /\ calls[c].pc = "modify"
    /\ files' = Modify(files, RecurringKind, StartYear(c),
                       Cat(calls[c].content, formatRecurringTransaction(calls[c].t)))
    /\ Goto(c, "done")
    /\ last' = [op |-> "add", ok |-> TRUE, arg |-> calls[c].t, id |-> calls[c].t.id,
                signals |-> << RECURRING_TRANSACTION_CHANGED >>]
    /\ result' = << calls[c].t >>
    /\ UNCHANGED <<folders, issued, recurringVars>>
    /\ startupFrame

InitStartup ==
    /\ \E stored \in BOOLEAN :
          /\ files = (IF stored THEN Recurring_getOrCreateFinanceFile(<< >>, CurrentYear)
                      ELSE << >>)
          /\ folders = (IF stored THEN {CurrentYear} ELSE {})
    /\ transactions = << >> /\ initialized = FALSE
    /\ budgets = << >> /\ budgetInitialized = FALSE
    /\ issued = << >> /\ updates = 0 /\ initCalled = FALSE
    /\ svc = "startup"
    /\ last = NoCall
    /\ result = << >>
    /\ calls = [c \in {Loader} \cup Adders |->
                  IF c = Loader THEN [pc |-> "lookup", content |-> << >>] ELSE Idle]
    /\ recurringTransactions = << >> /\ recurringLoading = TRUE
    /\ listeners = << >> /\ views = << >>

NextStartup ==
    \/ recurring_load_lookup
    \/ recurring_load_create
    \/ recurring_load_read
    \/ recurring_load_assign
    \/ \E c \in Adders :
          \/ \E t \in StartupSamples : recurring_add_push(c, t)
          \/ recurring_add_lookup(c)
          \/ recurring_add_create(c)
          \/ recurring_add_read(c)
          \/ recurring_add_modify(c)

SpecStartup == InitStartup /\ [][NextStartup]_vars

----------------------------------------------------------------------------
(* Reading a document the way the decoder does *)

\* the indices of the header lines ('## ...') of a text
HeaderIndices(lines) == { i \in 1..Len(lines) : StartsWithHeader(lines[i]) }

\* the lines before the first header: the title preamble
Preamble(lines) ==
    IF HeaderIndices(lines) = {} THEN lines
    ELSE SubSeq(lines, 1, (CHOOSE i \in HeaderIndices(lines) :
                               \A j \in HeaderIndices(lines) : i <= j) - 1)

\* the lines from the header at i up to, not including, the next header
BlockAt(lines, i) ==
    LET later == { j \in HeaderIndices(lines) : j > i }
        end == IF later = {} THEN Len(lines) + 1
               ELSE CHOOSE j \in later : \A k \in later : j <= k
    IN  SubSeq(lines, i, end - 1)

\* the id written on the header line at i
HeaderId(lines, i) == lines[i][1].v

\* the header lines of one kind
KindIndices(lines, kind) == { i \in 1..Len(lines) : StartsWithKind(lines[i], kind) }

TxDoc(fs, year) == fs[<<"Transaction", year>>]

\* what getTransactions(q) returns when it is called in this state
QueryNow(q) ==
    FilterTransactions(IF initialized THEN transactions
                       ELSE LoadedTransactions(files, CurrentYear), q)


----------------------------------------------------------------------------
(* C1: after addTransaction(t), a query whose bounds enclose t.date returns *)
(* the record with the id addTransaction returned and t's fields unchanged. *)
C1_AddThenQuery ==
    (svc = "transaction" /\ last.op = "add") =>
        \A q \in RangeQueries :
            (q.startDate <= last.arg.date /\ last.arg.date <= q.endDate) =>
                \E i \in 1..Len(QueryNow(q)) :
                    QueryNow(q)[i] = SetKey(last.arg, "id", last.id)

\* the call of caller c has written its block and has not failed
PastWrite(c) ==
    calls[c].pc \in {"reload", "reloadLookup", "reloadCreate", "reloadRead",
                     "reloadAssign", "done"}

\* the ids on the transaction headers of a document
HeaderIds(doc) == { HeaderId(doc, i) : i \in KindIndices(doc, "Transaction") }

(* C2: when two addTransaction calls on one year-document have both read the *)
(* document before either wrote it (they read the same text) and both have   *)
(* written, the document is the text read followed by the block of the later *)
(* writer alone: it holds exactly one of the two new blocks, and neither     *)
(* call has failed.                                                          *)
C2_LostUpdate ==
    \A c, d \in DOMAIN calls :
        (/\ c # d /\ PastWrite(c) /\ PastWrite(d)
         /\ YearOf(c) = YearOf(d)
         /\ calls[c].content = calls[d].content) =>
            LET doc == TxDoc(files, YearOf(c))
            IN  /\ \/ doc = Cat(calls[c].content, formatTransaction(calls[c].t))
                   \/ doc = Cat(calls[d].content, formatTransaction(calls[d].t))
                /\ Cardinality({calls[c].t.id, calls[d].t.id} \cap HeaderIds(doc)) = 1

\* both calls have returned their records, and one of the two blocks is lost
C2_Witness ==
    \E c, d \in DOMAIN calls :
        /\ c # d /\ calls[c].pc = "done" /\ calls[d].pc = "done"
        /\ YearOf(c) = YearOf(d)
        /\ calls[c].content = calls[d].content
        /\ last.op = "add" /\ last.ok
        /\ calls[c].t.id \notin HeaderIds(TxDoc(files, YearOf(c)))
        /\ calls[d].t.id \in HeaderIds(TxDoc(files, YearOf(c)))

(* C3: updateTransaction(A) leaves the title preamble and the block of every *)
(* other record B (header line up to the next header) as they were.          *)
C3_UpdateIsolation ==
    [][ (svc = "transaction" /\ last'.op = "update" /\ last'.ok) =>
          \A year \in Years :
              Exists(files, "Transaction", year) =>
                  LET before == TxDoc(files, year)
                      after == TxDoc(files', year)
                  IN  /\ Preamble(after) = Preamble(before)
                      /\ \A i \in HeaderIndices(before) :
                             HeaderId(before, i) # last'.id =>
                                 \E j \in HeaderIndices(after) :
                                     BlockAt(after, j) = BlockAt(before, i) ]_vars

\* an update rewrote the block of a record that stands between two other records
C3_Witness ==
    /\ svc = "transaction" /\ last.op = "update" /\ last.ok
    /\ Exists(files, "Transaction", getYear(last.arg.date))
    /\ LET doc == TxDoc(files, getYear(last.arg.date))
       IN  \E i, j, k \in HeaderIndices(doc) :
               /\ i < j /\ j < k
               /\ HeaderId(doc, j) = last.id
               /\ SubSeq(doc, j, j + 9) = SubSeq(formatTransaction(last.arg), 1, 10)

(* C4: after a successful deleteTransaction(id) the year-document decodes to *)
(* no record with that id, to one record fewer than before, and to every     *)
(* record that has a different id.                                           *)
C4_DeleteCompleteness ==
    [][ (svc = "transaction" /\ last'.op = "delete" /\ last'.ok) =>
          LET before == parseTransactionsFromContent(TxDoc(files, last'.year))
              after == parseTransactionsFromContent(TxDoc(files', last'.year))
          IN  /\ \A i \in 1..Len(after) : Get(after[i], "id") # last'.id
              /\ Len(after) = Len(before) - 1
              /\ \A i \in 1..Len(before) :
                     Get(before[i], "id") # last'.id =>
                         \E j \in 1..Len(after) : after[j] = before[i] ]_vars

C7_UniqueIds ==
    /\ \A i, j \in 1..Len(issued) : i # j => issued[i] # issued[j]
    /\ \A key \in DOMAIN files :
           \A i, j \in KindIndices(files[key], key[1]) :
               i # j => HeaderId(files[key], i) # HeaderId(files[key], j)

\* three ids were handed out, a record was updated, and a delete left two blocks
C7_Witness ==
    /\ Len(issued) >= 3 /\ updates > 0
    /\ last.op = "delete" /\ last.ok
    /\ \E key \in DOMAIN files : Cardinality(KindIndices(files[key], key[1])) >= 2

(* C8: getTransactions({startDate: s, endDate: e}) with s <= e returns        *)
(* exactly the cached records whose date d satisfies s <= d <= e, both       *)
(* bounds inclusive: no more and no fewer.                                   *)
C8_DateFilterExact ==
    (last.op = "query" /\ DOMAIN last.q = {"startDate", "endDate"}
                       /\ last.q.startDate <= last.q.endDate) =>
        LET Keep == { i \in 1..Len(transactions) :
                        /\ "date" \in DOMAIN transactions[i]
                        /\ last.q.startDate <= transactions[i].date
                        /\ transactions[i].date <= last.q.endDate }
        IN  /\ Len(result) = Cardinality(Keep)
            /\ \A i \in Keep : \E j \in 1..Len(result) : result[j] = transactions[i]
            /\ \A j \in 1..Len(result) : \E i \in Keep : result[j] = transactions[i]

\* a query kept a record dated on its start bound and one dated on its end bound
\* and left another cached record out
C8_Witness ==
    /\ last.op = "query" /\ DOMAIN last.q = {"startDate", "endDate"}
    /\ last.q.startDate < last.q.endDate
    /\ \E i, j \in 1..Len(result) :
           result[i].date = last.q.startDate /\ result[j].date = last.q.endDate
    /\ Len(result) < Len(transactions)

\* the sum of the amounts of the records of ts that have the given type
RECURSIVE AmountsOf(_, _)
AmountsOf(ts, type) ==
    IF ts = << >> THEN 0
    ELSE (IF Head(ts).type = type THEN Head(ts).amount ELSE 0) + AmountsOf(Tail(ts), type)

RECURSIVE CountAll(_)
CountAll(parts) ==
    IF parts = << >> THEN 0 ELSE Len(Head(parts).transactions) + CountAll(Tail(parts))

(* C9: in every period summary, each currency partition has netAmount =      *)
(* totalIncome - totalExpense with the totals being the sums of its income   *)
(* and expense amounts; every transaction of the period lies in exactly one  *)
(* partition, the one of its currency, and the partitions' counts add up to  *)
(* the number of transactions of the period.                                 *)
C9_SummaryConservation ==
    (last.op = "summary") =>
        LET period == FilterTransactions(transactions, last.q)
        IN  /\ \A k \in 1..Len(result) :
                   /\ result[k].totalIncome = AmountsOf(result[k].transactions, "income")
                   /\ result[k].totalExpense = AmountsOf(result[k].transactions, "expense")
                   /\ result[k].netAmount =
                          AmountsOf(result[k].transactions, "income")
                          - AmountsOf(result[k].transactions, "expense")
            /\ \A i \in 1..Len(period) :
                   \E k \in 1..Len(result) :
                       /\ result[k].currency = period[i].currency
                       /\ \E n \in 1..Len(result[k].transactions) :
                              result[k].transactions[n] = period[i]
                       /\ \A m \in 1..Len(result) :
                              (\E n \in 1..Len(result[m].transactions) :
                                   result[m].transactions[n] = period[i]) => m = k
            /\ CountAll(result) = Len(period)

\* a summary with two currency partitions, one of them holding income and expense
C9_Witness ==
    /\ last.op = "summary" /\ Len(result) >= 2
    /\ \E k \in 1..Len(result) :
           result[k].totalIncome > 0 /\ result[k].totalExpense > 0

\* field-for-field equality; a key that holds undefined counts as an absent key
SameRecord(a, b) == \A f \in DOMAIN a \cup DOMAIN b : Get(a, f) = Get(b, f)

(* C5: for every valid record of every kind, decoding the block that encodes *)
(* the record returns exactly one record, equal to it field for field.       *)
C5_CodecRoundTrip ==
    (last.op = "roundtrip") => Len(result) = 1 /\ SameRecord(result[1], last.arg)

\* the well-formed records of the blocks given, in document order
RECURSIVE WellFormedOf(_, _)
WellFormedOf(blocks, i) ==
    IF i > Len(blocks) THEN << >>
    ELSE (IF blocks[i].omit = "none"
          THEN << SetKey(blocks[i].rec, "id", IdPool[i]) >> ELSE << >>)
         \o WellFormedOf(blocks, i + 1)

(* C10: decoding a document of well-formed blocks and blocks that lack the  *)
(* Amount line or the ID line returns exactly the well-formed records.      *)
C10_MalformedExcluded ==
    (last.op = "decode") =>
        LET expected == WellFormedOf(last.blocks, 1)
        IN  /\ Len(result) = Len(expected)
            /\ \A i \in 1..Len(expected) : SameRecord(result[i], expected[i])

(* C11: update(record) and delete(id) called with an id that no cached     *)
(* record has fail with the not-found error; no folder or document is       *)
(* created or written, the caches are unchanged and no signal is emitted.   *)
C11_NotFoundNoEffect ==
    [][ (/\ last'.op \in {"update", "delete"}
         /\ last'.id \notin (CachedIds \cup CachedBudgetIds \cup CachedRecurringIds)) =>
            /\ ~last'.ok
            /\ files' = files /\ folders' = folders
            /\ transactions' = transactions /\ budgets' = budgets
            /\ recurringTransactions' = recurringTransactions
            /\ last'.signals = << >> ]_vars

\* a delete with an unknown id was refused by a repository that holds records
C11_Witness ==
    /\ last.op = "delete" /\ ~last.ok /\ last.id = "id-none"
    /\ Len(transactions) + Len(budgets) > 0
    /\ DOMAIN files # {}

\* the change signal of the repository a behaviour exercises
ChangeSignal ==
    CASE svc = "transaction" -> TRANSACTION_CHANGED
      [] svc = "budget" -> BUDGET_CHANGED
      [] svc = "recurring" -> RECURRING_TRANSACTION_CHANGED

(* C12: in each of the three repositories a successful add, update or      *)
(* delete emits that kind's change signal exactly once, and a failed one   *)
(* emits none.                                                             *)
C12_SignalPerMutation ==
    [][ last'.op \in {"add", "update", "delete"} =>
            last'.signals = IF last'.ok THEN << ChangeSignal >> ELSE << >> ]_vars

\* a budget was added and written to its document
C12_BudgetAdded ==
    /\ svc = "budget" /\ last.op = "add" /\ last.ok
    /\ \E k \in DOMAIN files : /\ k[1] = "Budget"
                              /\ \E i \in 1..Len(files[k]) : Includes(files[k][i], last.id)

\* the years whose transaction document holds a block headed by the id
StoredYears(fs, id) ==
    { k[2] : k \in { f \in DOMAIN fs : f[1] = "Transaction" /\ id \in HeaderIds(fs[f]) } }

(* C13: when updateTransaction moves a stored transaction's date into       *)
(* another calendar year, the block leaves the old year-document and enters *)
(* the new one: afterwards the record is stored in exactly the document of  *)
(* its date's year.                                                         *)
C13_CrossYearMove ==
    [][ (/\ svc = "transaction" /\ last'.op = "update" /\ last'.ok
         /\ FindIndex(transactions, last'.id) # 0
         /\ LET old == transactions[FindIndex(transactions, last'.id)]
            IN  /\ getYear(old.date) # getYear(last'.arg.date)
                /\ StoredYears(files, last'.id) = {getYear(old.date)}) =>
            StoredYears(files', last'.id) = {getYear(last'.arg.date)} ]_vars

\* an update has moved a record's date into another year; its block is still
\* in a document of a year that is not its date's
C13_Witness ==
    /\ svc = "transaction" /\ last.op = "update" /\ last.ok
    /\ StoredYears(files, last.id) # {}
    /\ getYear(last.arg.date) \notin StoredYears(files, last.id)

\* the text of a document, a document that does not exist yet counting as
\* the initial content it is created with
TextBefore(fs, year) ==
    IF Exists(fs, "Transaction", year) THEN TxDoc(fs, year) ELSE getInitialContent(year)

(* C14: addTransaction(t) changes only the transaction document of t.date's *)
(* year: its text after the call is its text before the call followed by    *)
(* exactly the encoded block of the new record, and no other document is    *)
(* created or changed.                                                      *)
C14_AddFrame ==
    [][ (svc = "transaction" /\ last'.op = "add" /\ last'.ok) =>
            LET year == getYear(last'.arg.date)
                target == <<"Transaction", year>>
            IN  /\ target \in DOMAIN files'
                /\ files'[target] =
                       Cat(TextBefore(files, year),
                           formatTransaction(SetKey(last'.arg, "id", last'.id)))
                /\ \A k \in DOMAIN files' \ {target} :
                       k \in DOMAIN files /\ files'[k] = files[k] ]_vars

\* a record of another year than the current one was added, and the current
\* year's document exists
C14_Witness ==
    /\ svc = "transaction" /\ last.op = "add" /\ last.ok
    /\ getYear(last.arg.date) # CurrentYear
    /\ Exists(files, "Transaction", CurrentYear)
    /\ last.id \in HeaderIds(TxDoc(files, getYear(last.arg.date)))

\* what a reload of the current year from the store would put in a cache
LoadedRecurringTransactions(fs) ==
    parseRecurringTransactionsFromContent(
        Recurring_getOrCreateFinanceFile(fs, CurrentYear)[<<RecurringKind, CurrentYear>>])

(* C16: in all three repositories, once a mutation has completed the cache *)
(* equals the decoding of the durable document of the loaded year: the     *)
(* cache is reloaded from the store, never patched in place.               *)
C16_CacheIsDecodedStore ==
    (last.op \in {"add", "update", "delete"} /\ last.ok /\ ~recurringLoading) =>
        CASE svc = "transaction" -> transactions = LoadedTransactions(files, CurrentYear)
          [] svc = "budget" -> budgets = LoadedBudgets(files)
          [] svc = "recurring" ->
                 recurringTransactions = LoadedRecurringTransactions(files)

\* a budget cache that holds a record as the caller passed it while the
\* document decodes to something else
C16_Witness ==
    /\ svc = "budget" /\ last.op = "add" /\ last.ok
    /\ budgets # << >>
    /\ budgets[Len(budgets)] = result[1]
    /\ budgets # LoadedBudgets(files)

(* C17: a query whose date bounds lie in a year other than the one loaded  *)
(* in the cache returns the matching records stored in that other year's   *)
(* document.                                                               *)
C17_QueryOtherYear ==
    (/\ last.op = "query" /\ DOMAIN last.q = {"startDate", "endDate"}
     /\ getYear(last.q.startDate) = getYear(last.q.endDate)
     /\ getYear(last.q.startDate) # CurrentYear
     /\ transactions = LoadedTransactions(files, CurrentYear)) =>
        result = FilterTransactions(
                     LoadedTransactions(files, getYear(last.q.startDate)), last.q)

\* a query over another year than the loaded one came back empty while that
\* year's document holds a record inside the bounds
C17_Witness ==
    /\ last.op = "query" /\ DOMAIN last.q = {"startDate", "endDate"}
    /\ getYear(last.q.startDate) = 2024 /\ getYear(last.q.endDate) = 2024
    /\ transactions = LoadedTransactions(files, CurrentYear)
    /\ result = << >>
    /\ FilterTransactions(LoadedTransactions(files, 2024), last.q) # << >>

\* the ids on the headers of one kind in a document
KindHeaderIds(doc, kind) == { HeaderId(doc, i) : i \in KindIndices(doc, kind) }

(* C18: a budget or recurring transaction created by add is returned by    *)
(* the query for its year (getBudgets / getRecurringTransactions) under    *)
(* the id that add returned, so that update and delete called with a       *)
(* queried id find the record.                                             *)
C18_ListedUnderAddedId ==
    (last.op = "list" /\ last.year = CurrentYear) =>
        LET kind == IF svc = "budget" THEN "Budget" ELSE RecurringKind
        IN  /\ \A id \in KindHeaderIds(files[<<kind, CurrentYear>>], kind) :
                   \E j \in 1..Len(result) : result[j].id = id
            /\ QueriedIds \subseteq (CachedBudgetIds \cup CachedRecurringIds)

\* a listing that returned a record under an id no add has returned and none
\* of the records that were added
C18_Witness ==
    /\ last.op = "list" /\ last.year = CurrentYear
    /\ result # << >>
    /\ QueriedIds \cap (CachedBudgetIds \cup CachedRecurringIds) = {}
    /\ CachedBudgetIds \cup CachedRecurringIds # {}

\* the lines of a text without the block that starts at the header line at
\* and ends before the next header line of any kind
WithoutBlockAt(lines, at) ==
    JoinLines(SubSeq(lines, 1, at - 1)
              \o SubSeq(lines, at + Len(BlockAt(lines, at)), Len(lines)))

(* C19: delete(id) removes from the document exactly the lines from the    *)
(* record's header line up to, not including, the next header line of any  *)
(* kind ('## ') or the end of the document; every other line, a foreign    *)
(* '## ' section after the record included, is kept in its order.          *)
C19_DeleteExactBlock ==
    (last.op = "removed" /\ FindBlock(last.content, "Transaction", last.id) # 0) =>
        result = WithoutBlockAt(last.content,
                                FindBlock(last.content, "Transaction", last.id))

\* the record in front of the foreign section was deleted and the section
\* is gone with it
C19_Witness ==
    /\ last.op = "removed"
    /\ \E i \in 1..Len(last.content) : last.content[i] = ForeignSection[1]
    /\ last.id \notin KindHeaderIds(result, "Transaction")
    /\ \A i \in 1..Len(result) : result[i] # ForeignSection[1]

\* a record whose amount is no number or whose date is no date
Malformed(t) == t.amount = NaN \/ t.date = InvalidDate

(* C20: add() called with a malformed required field (a non-numeric amount *)
(* or an unparseable date) fails before any durable state is changed: no   *)
(* folder or document is created and no document is written.               *)
C20_FailClosed ==
    [][ (last'.op = "add" /\ Malformed(last'.arg)) =>
            /\ ~last'.ok
            /\ files' = files /\ folders' = folders ]_vars

\* an add with an unparseable date has failed and left a folder and a
\* document for the year NaN behind
C20_Witness ==
    /\ last.op = "add" /\ ~last.ok /\ last.arg.date = InvalidDate
    /\ NaN \in folders
    /\ Exists(files, "Transaction", NaN)

(* C21: a storage failure (the store's read, write or create raising)      *)
(* during a repository operation, initialize() and the reload after a      *)
(* mutation's write included, reaches the caller as an error: the call is  *)
(* not reported as a success.                                              *)
C21_FaultPropagated ==
    ("fault" \in DOMAIN last) => ~last.ok

\* an addTransaction whose reload could not read the store has resolved: the
\* cache is empty while the document holds the record just written
C21_Witness ==
    /\ "fault" \in DOMAIN last /\ last.op = "add" /\ last.fault = "reload" /\ last.ok
    /\ transactions = << >>
    /\ LoadedTransactions(files, CurrentYear) # << >>

\* how often a callback occurs in a list of callbacks
Occurrences(cbs, cb) == Cardinality({ i \in 1..Len(cbs) : cbs[i] = cb })

\* the list without its element at i
WithoutIndex(cbs, i) == SubSeq(cbs, 1, i - 1) \o SubSeq(cbs, i + 1, Len(cbs))

(* C22: EventBus.unsubscribe(event, cb) removes exactly one registration   *)
(* of the callback cb on that event, or nothing when cb is not registered  *)
(* there; every other registration, on that event and on every other      *)
(* event, stays registered in its original order.                          *)
C22_UnsubscribeExact ==
    [][ last'.op = "unsubscribe" =>
            LET was == Registered(listeners, last'.event)
                is == Registered(listeners', last'.event)
            IN  /\ \A e \in (DOMAIN listeners \cup DOMAIN listeners') \ {last'.event} :
                       Registered(listeners', e) = Registered(listeners, e)
                /\ IF Occurrences(was, last'.cb) = 0 THEN is = was
                   ELSE \E i \in 1..Len(was) :
                            was[i] = last'.cb /\ is = WithoutIndex(was, i) ]_vars

\* a callback registered twice on an event was unsubscribed once: it is
\* still registered there once, and the other event holds a registration too
C22_Witness ==
    /\ last.op = "unsubscribe"
    /\ Occurrences(Registered(listeners, last.event), last.cb) = 1
    /\ CountRegistered(listeners, DOMAIN listeners) = MaxListeners - 1
    /\ \E e \in DOMAIN listeners : e # last.event /\ listeners[e] # << >>

\* the callbacks registered on any event that a view made
RegisteredBy(view) ==
    { cb \in UNION { SeqToSet(listeners[e]) : e \in DOMAIN listeners } : cb.view = view }

(* C23: after a FinanceTableView or a ChartView has been closed the event  *)
(* bus holds no registration made by that view, so a later change signal   *)
(* does not invoke the closed view's handler and the registrations do not  *)
(* grow over open/close cycles.                                            *)
C23_ClosedViewUnregistered ==
    \A view \in 1..Len(views) : ~views[view].open => RegisteredBy(view) = {}

\* two views were opened and closed, all their handlers are still registered
\* and the add that came last has invoked handlers of closed views
C23_Witness ==
    /\ Len(views) = MaxViews
    /\ \A view \in 1..Len(views) : ~views[view].open /\ RegisteredBy(view) # {}
    /\ last.op = "add" /\ last.ok
    /\ \E i \in 1..Len(last.invoked) : last.invoked[i].view \in 1..Len(views)

\* no callback of the sequence raises
NoneThrows(cbs) == \A i \in 1..Len(cbs) : ~Throws(cbs[i])

(* C28: during emit(event) every callback registered for the event when    *)
(* emit starts is invoked exactly once per registration, also when a       *)
(* callback unsubscribes itself or another callback of the event while the *)
(* emit is in progress; callbacks of other events are not invoked.         *)
C28_EmitInvokesEveryCallback ==
    [][ (last'.op = "emit" /\ NoneThrows(Registered(listeners, last'.event)))
          => \A cb \in Handlers :
                Occurrences(result', cb) = Occurrences(Registered(listeners, last'.event), cb)
      ]_vars

\* an emit has returned having invoked only the callback that unsubscribed
\* itself; the callback registered after it is still registered and was
\* passed over
C28_Witness ==
    /\ last.op = "emit" /\ last.ok
    /\ result = <<Handler("leaver")>>
    /\ Registered(listeners, last.event) = <<Handler("f")>>

(* C29: a subscriber callback that raises during the change-signal emit    *)
(* does not change the outcome of the mutation that emitted it: an         *)
(* addTransaction, updateTransaction or deleteTransaction whose document   *)
(* write succeeded still completes successfully, and the remaining         *)
(* subscribers are still invoked.                                          *)
C29_ThrowingSubscriberContained ==
    [][ (last'.op \in {"add", "update", "delete"} /\ "invoked" \in DOMAIN last')
          => /\ last'.ok
             /\ \A cb \in SeqToSet(Registered(listeners, TRANSACTION_CHANGED)) :
                    Occurrences(last'.invoked, cb) =
                        Occurrences(Registered(listeners, TRANSACTION_CHANGED), cb)
      ]_vars

\* an add was rejected although its record is in the document and in the
\* cache, and a view's handler registered after the raising one was not run
C29_Witness ==
    /\ last.op = "add" /\ ~last.ok /\ "invoked" \in DOMAIN last
    /\ FindIndex(transactions, last.id) # 0
    /\ last.id \in KindHeaderIds(files[<<"Transaction", CurrentYear>>], "Transaction")
    /\ \E cb \in SeqToSet(Registered(listeners, TRANSACTION_CHANGED)) :
          cb.owner \in {"table", "chart"} /\ Occurrences(last.invoked, cb) = 0

\* the repository the behaviour exercises has been initialized
RepositoryInitialized ==
    CASE svc = "budget" -> budgetInitialized
      [] svc = "recurring" -> ~recurringLoading
      [] OTHER -> initialized

(* C24: a query on an already initialized repository does not mutate       *)
(* state: it leaves the in-memory cache (content and order) and every      *)
(* stored document unchanged, and creates no folder or document.           *)
C24_QueryFrame ==
    [][ (last'.op = "list" /\ RepositoryInitialized)
          => /\ files' = files /\ folders' = folders
             /\ budgets' = budgets /\ recurringTransactions' = recurringTransactions
      ]_vars

\* an initialized budget repository was asked for the budgets of a year it
\* holds nothing for: the answer is empty, and the vault now has a folder
\* and a document for that year though no budget of that year is cached
C24_Witness ==
    /\ svc = "budget" /\ budgetInitialized
    /\ last.op = "list" /\ last.year = 2024 /\ result = << >>
    /\ 2024 \in folders
    /\ <<"Budget", 2024>> \in DOMAIN files
    /\ files[<<"Budget", 2024>>] = Budget_getInitialContent(2024)
    /\ budgets # << >>

\* a comes strictly before b under the sort list: they tie on the keys before
\* some key, and that key orders them in its direction
Precedes(a, b, sort) ==
    \E k \in 1..Len(sort) :
        /\ \A m \in 1..(k - 1) : StringOf(a, sort[m].field) = StringOf(b, sort[m].field)
        /\ IF sort[k].direction = "asc"
           THEN StringLess(StringOf(a, sort[k].field), StringOf(b, sort[k].field))
           ELSE StringLess(StringOf(b, sort[k].field), StringOf(a, sort[k].field))

\* a and b tie on every key of the sort list
TieOnAll(a, b, sort) ==
    \A k \in 1..Len(sort) : StringOf(a, sort[k].field) = StringOf(b, sort[k].field)

(* C25: getTransactions with a sort list returns a permutation of the      *)
(* filtered records ordered by the sort keys taken in list order, each key *)
(* compared lexicographically on the string form of the field in its own   *)
(* direction; a tie on one key is broken by the next key, and records that *)
(* tie on every key keep their relative order from the cache.              *)
C25_SortedStable ==
    (last.op = "query" /\ "sort" \in DOMAIN last.q /\ ~Paged(last.q)) =>
        LET filtered == FilterTransactions(transactions, last.q)
            sort == last.q.sort
        IN  /\ Len(result) = Len(filtered)
            /\ \A i \in 1..Len(filtered) :
                  Cardinality({ j \in 1..Len(result) : result[j] = filtered[i] })
                      = Cardinality({ j \in 1..Len(filtered) : filtered[j] = filtered[i] })
            /\ \A i, j \in 1..Len(result) : i < j => ~Precedes(result[j], result[i], sort)
            /\ \A i \in 1..Len(filtered) :
                  LET Ties(t) == TieOnAll(t, filtered[i], sort)
                  IN  SelectSeq(result, Ties) = SelectSeq(filtered, Ties)

\* a query sorted on two keys has reordered the cache: its first key ties
\* for the first two records returned, the second key, descending, orders
\* them, and the last two records tie on both keys
C25_Witness ==
    /\ last.op = "query" /\ "sort" \in DOMAIN last.q /\ ~Paged(last.q)
    /\ Len(last.q.sort) = 2 /\ last.q.sort[2].direction = "desc"
    /\ Len(result) = QueryRecords
    /\ result # FilterTransactions(transactions, last.q)
    /\ StringOf(result[1], last.q.sort[1].field) = StringOf(result[2], last.q.sort[1].field)
    /\ Precedes(result[1], result[2], last.q.sort)
    /\ TieOnAll(result[2], result[3], last.q.sort)

\* the pages first .. pages of the query q, one after the other
RECURSIVE ConcatPages(_, _, _, _)
ConcatPages(cache, q, first, pages) ==
    IF first > pages THEN << >>
    ELSE QueryTransactions(cache, [q EXCEPT !.page = first])
         \o ConcatPages(cache, q, first + 1, pages)

(* C26: pagination is the last step of a query and is applied exactly when *)
(* both page and pageSize are provided: page p (counted from 1) of size s  *)
(* (at least 1) returns the elements (p-1)*s .. p*s-1 of the filtered and  *)
(* sorted result, so the pages p = 1..ceil(n/s) are disjoint and their     *)
(* concatenation is the unpaginated result.                                *)
C26_PageIsSlice ==
    (last.op = "query") =>
        LET q == last.q
            full == SortTransactions(FilterTransactions(transactions, q), q)
            n == Len(full)
        IN  IF "page" \in DOMAIN q /\ "pageSize" \in DOMAIN q
            THEN LET from == (q.page - 1) * q.pageSize
                     upto == IF q.page * q.pageSize < n THEN q.page * q.pageSize ELSE n
                     count == IF upto > from THEN upto - from ELSE 0
                 IN  /\ result = [ i \in 1..count |-> full[from + i] ]
                     /\ ConcatPages(transactions, q, 1, (n + q.pageSize - 1) \div q.pageSize)
                            = full
            ELSE result = full

\* the second page of size 2 of a sorted query over three records: it holds
\* the one record left, which is the last of the sorted result
C26_Witness ==
    /\ last.op = "query" /\ Paged(last.q) /\ "sort" \in DOMAIN last.q
    /\ last.q.page = 2 /\ last.q.pageSize = 2
    /\ Len(transactions) = 3
    /\ result = << SortTransactions(transactions, last.q)[3] >>
    /\ SortTransactions(transactions, last.q) # transactions

(* C27: updateTransaction is idempotent on the document text: updating a   *)
(* stored record with the values it already has leaves the year-document   *)
(* unchanged, and applying the same update twice gives the same document   *)
(* as applying it once.                                                    *)
C27_UpdateIdempotent ==
    [][ (last'.op = "update" /\ last'.ok)
          => /\ (last'.arg \in SeqToSet(transactions) => files' = files)
             /\ updateTransactionInContent(files', last'.arg) = files'
      ]_vars

\* a record that is not the last of its document was updated with the
\* values it had: the cache still holds it, and its block is now followed
\* by two blank lines before the next record
C27_Witness ==
    /\ last.op = "update" /\ last.ok
    /\ last.arg \in SeqToSet(transactions)
    /\ LET lines == files[<<"Transaction", CurrentYear>>]
       IN  \E i \in 1..(Len(lines) - 2) :
              /\ lines[i] = BlankLine /\ lines[i + 1] = BlankLine
              /\ StartsWithKind(lines[i + 2], "Transaction")

(* C30: a record added while the initial load started by the constructor   *)
(* of RecurringTransactionService is still in flight is not lost from the  *)
(* cache: for every interleaving of that load with addRecurringTransaction,*)
(* once both have completed the cache contains the added record.           *)
C30_AddedRecordKept ==
    \A c \in Adders :
        (svc = "startup" /\ calls[Loader].pc = "done" /\ calls[c].pc = "done")
            => FindIndex(recurringTransactions, calls[c].t.id) # 0

\* the load and an add have both completed, the add successfully: the
\* document holds the added record and the cache, assigned by the load from
\* the text it had read earlier, does not
C30_Witness ==
    /\ svc = "startup" /\ calls[Loader].pc = "done" /\ ~recurringLoading
    /\ \E c \in Adders :
          /\ calls[c].pc = "done"
          /\ calls[c].t.id \in KindHeaderIds(files[<<RecurringKind, CurrentYear>>], RecurringKind)
          /\ FindIndex(recurringTransactions, calls[c].t.id) = 0
    /\ last.op = "load"
====
